---- MODULE Spec2Model ----
(***************************************************************************)
(* Rule-based resume scorer (StandardATSAnalyzer, standard_ats_analyzer.py) *)
(*                                                                         *)
(* Resume texts are TLA+ strings, inspected character by character the way *)
(* the Python code inspects them (substring search, whitespace splitting,  *)
(* the regular expressions of the sub-evaluations).  Only ASCII characters *)
(* can be written in a module, so the non-ASCII bullet glyphs and the en   *)
(* dash of the source patterns have no counterpart in the input texts.     *)
(***************************************************************************)
EXTENDS Integers, Sequences, FiniteSets, TLC

(***************************************************************************)
(* Python string primitives                                                *)
(***************************************************************************)
Ch(s, i) == SubSeq(s, i, i)

Digits == {"0", "1", "2", "3", "4", "5", "6", "7", "8", "9"}

LowerLetters ==
    {"a", "b", "c", "d", "e", "f", "g", "h", "i", "j", "k", "l", "m",
     "n", "o", "p", "q", "r", "s", "t", "u", "v", "w", "x", "y", "z"}

\* str.lower() on one character: the upper-case letters and their images
LowerOf ==
    [A |-> "a", B |-> "b", C |-> "c", D |-> "d", E |-> "e", F |-> "f",
     G |-> "g", H |-> "h", I |-> "i", J |-> "j", K |-> "k", L |-> "l",
     M |-> "m", N |-> "n", O |-> "o", P |-> "p", Q |-> "q", R |-> "r",
     S |-> "s", T |-> "t", U |-> "u", V |-> "v", W |-> "w", X |-> "x",
     Y |-> "y", Z |-> "z"]

UpperLetters == DOMAIN LowerOf

\* str.upper() on one lower-case letter (used by str.title())
UpperOf(c) == CHOOSE u \in UpperLetters : LowerOf[u] = c

\* characters str.split() and str.strip() treat as whitespace
Whitespace == {" ", "\n", "\t", "\r", "\f"}

IsSpace(c) == c \in Whitespace
IsDigit(c) == c \in Digits
\* str.isalpha() on one character
IsAlpha(c) == c \in LowerLetters \/ c \in UpperLetters
\* the regex class \w
IsWordCh(c) == IsAlpha(c) \/ IsDigit(c) \/ c = "_"

LowerCh(c) == IF c \in UpperLetters THEN LowerOf[c] ELSE c

RECURSIVE Lower(_)
\* str.lower()
Lower(s) ==
    IF Len(s) = 0 THEN ""
    ELSE IF Len(s) = 1 THEN LowerCh(s)
    ELSE LET h == Len(s) \div 2
         IN  Lower(SubSeq(s, 1, h)) \o Lower(SubSeq(s, h + 1, Len(s)))

\* str.title() of a lower-case single word
Title(s) == IF Len(s) = 0 THEN "" ELSE UpperOf(Ch(s, 1)) \o SubSeq(s, 2, Len(s))

\* s[i:i+len(kw)] == kw  (1-based i)
MatchAt(s, i, kw) == i >= 1 /\ i + Len(kw) - 1 <= Len(s) /\ SubSeq(s, i, i + Len(kw) - 1) = kw

\* kw in s
Contains(s, kw) == \E i \in 1..(Len(s) - Len(kw) + 1) : SubSeq(s, i, i + Len(kw) - 1) = kw

\* s.startswith(kw)
StartsWith(s, kw) == MatchAt(s, 1, kw)

\* s.count(kw) for a kw that cannot overlap itself
Count(s, kw) == Cardinality({i \in 1..(Len(s) - Len(kw) + 1) : SubSeq(s, i, i + Len(kw) - 1) = kw})

RECURSIVE SortedIn(_, _, _)
\* the members of the set S of integers that lie in lo..hi, in increasing order
SortedIn(S, lo, hi) ==
    IF lo > hi THEN <<>>
    ELSE IF lo = hi THEN (IF lo \in S THEN <<lo>> ELSE <<>>)
    ELSE LET m == (lo + hi) \div 2
         IN  SortedIn(S, lo, m) \o SortedIn(S, m + 1, hi)

\* s.strip()
Strip(s) ==
    LET keep == SortedIn({i \in 1..Len(s) : ~IsSpace(Ch(s, i))}, 1, Len(s))
    IN  IF Len(keep) = 0 THEN "" ELSE SubSeq(s, keep[1], keep[Len(keep)])

\* s.lstrip(chars)
LStrip(s, chars) ==
    LET keep == SortedIn({i \in 1..Len(s) : Ch(s, i) \notin chars}, 1, Len(s))
    IN  IF Len(keep) = 0 THEN "" ELSE SubSeq(s, keep[1], Len(s))

\* s.split(): the maximal runs of non-whitespace characters, in order
Split(s) ==
    LET n      == Len(s)
        starts == SortedIn({i \in 1..n : ~IsSpace(Ch(s, i)) /\ (i = 1 \/ IsSpace(Ch(s, i - 1)))},
                           1, n)
        ends   == SortedIn({i \in 1..n : ~IsSpace(Ch(s, i)) /\ (i = n \/ IsSpace(Ch(s, i + 1)))},
                           1, n)
    IN  [k \in 1..Len(starts) |-> SubSeq(s, starts[k], ends[k])]

\* s.split('\n'): one more piece than there are newlines, empty pieces kept
SplitLines(s) ==
    LET n   == Len(s)
        nl  == SortedIn({i \in 1..n : Ch(s, i) = "\n"}, 1, n)
        cnt == Len(nl)
        from(k) == IF k = 1 THEN 1 ELSE nl[k - 1] + 1
        to(k)   == IF k = cnt + 1 THEN n ELSE nl[k] - 1
    IN  [k \in 1..(cnt + 1) |-> SubSeq(s, from(k), to(k))]

\* the members of seq whose index is in the set keep, in order
SelectSeqIdx(seq, keep) ==
    LET idx == SortedIn(keep, 1, Len(seq))
    IN  [k \in 1..Len(idx) |-> seq[idx[k]]]

\* ', '.join(seq)
RECURSIVE Join(_, _)
Join(seq, sep) ==
    IF Len(seq) = 0 THEN ""
    ELSE IF Len(seq) = 1 THEN seq[1]
    ELSE seq[1] \o sep \o Join(Tail(seq), sep)

Min2(a, b) == IF a <= b THEN a ELSE b
Max2(a, b) == IF a >= b THEN a ELSE b


(***************************************************************************)
(* Regular-expression primitives (Python re)                               *)
(***************************************************************************)
\* \b at the gap before position i (1 <= i <= Len(s) + 1)
WordBoundary(s, i) ==
    (i > 1 /\ IsWordCh(Ch(s, i - 1))) # (i <= Len(s) /\ IsWordCh(Ch(s, i)))

\* \d{k} at position i
DigitsAt(s, i, k) == i >= 1 /\ i + k - 1 <= Len(s) /\ \A j \in i..(i + k - 1) : IsDigit(Ch(s, j))

\* some alternative of the set alts matches at position i
AnyAt(s, i, alts) == \E w \in alts : MatchAt(s, i, w)

\* the class [\w\.-]
IsEmailCh(c) == IsWordCh(c) \/ c = "." \/ c = "-"

\* re.search(r'\b[\w\.-]+@[\w\.-]+\.\w+\b', s)
SearchEmail(s) ==
    LET n == Len(s) IN
    \E a \in 1..n :
        /\ Ch(s, a) = "@"
        /\ \E st \in 1..(a - 1) :
              /\ \A j \in st..(a - 1) : IsEmailCh(Ch(s, j))
              /\ WordBoundary(s, st)
        /\ \E d \in (a + 2)..(n - 1) :
              /\ Ch(s, d) = "."
              /\ \A j \in (a + 1)..(d - 1) : IsEmailCh(Ch(s, j))
              /\ \E e \in (d + 1)..n :
                    /\ \A j \in (d + 1)..e : IsWordCh(Ch(s, j))
                    /\ WordBoundary(s, e + 1)

\* re.search(r'\b\d{3}[-.]?\d{3}[-.]?\d{4}\b', s)
SearchPhone(s) ==
    \E st \in 1..Len(s) :
        /\ WordBoundary(s, st)
        /\ DigitsAt(s, st, 3)
        /\ \E s1 \in {0, 1} :
              /\ s1 = 1 => Ch(s, st + 3) \in {"-", "."}
              /\ DigitsAt(s, st + 3 + s1, 3)
              /\ \E s2 \in {0, 1} :
                    /\ s2 = 1 => Ch(s, st + 6 + s1) \in {"-", "."}
                    /\ DigitsAt(s, st + 6 + s1 + s2, 4)
                    /\ WordBoundary(s, st + 10 + s1 + s2)

\* re.search(r'\b(w1|w2|...)\b', s)
SearchWord(s, alts) ==
    \E i \in 1..Len(s) : \E w \in alts :
        MatchAt(s, i, w) /\ WordBoundary(s, i) /\ WordBoundary(s, i + Len(w))

\* re.search(r'\d+<suffix>', s) for a literal suffix
SearchDigitsThen(s, suffix) ==
    \E i \in 1..Len(s) : IsDigit(Ch(s, i)) /\ MatchAt(s, i + 1, suffix)

\* re.search(r'\d+\s*(w1|w2|...)', s)
SearchCounted(s, alts) ==
    \E i \in 1..Len(s) :
        /\ IsDigit(Ch(s, i))
        /\ \E j \in (i + 1)..Len(s) :
              /\ \A m \in (i + 1)..(j - 1) : IsSpace(Ch(s, m))
              /\ AnyAt(s, j, alts)

\* re.search(r'\$\d+', s)
SearchMoney(s) == \E i \in 1..Len(s) : Ch(s, i) = "$" /\ DigitsAt(s, i + 1, 1)

\* re.findall(r'\b(19|20)\d{2}\b', s): the text of group 1 of every match,
\* in text order (a match is delimited by \b on both sides, so matches
\* never overlap)
FindallCentury(s) ==
    LET hits == {i \in 1..Len(s) :
                    /\ WordBoundary(s, i)
                    /\ AnyAt(s, i, {"19", "20"})
                    /\ DigitsAt(s, i + 2, 2)
                    /\ WordBoundary(s, i + 4)}
        at   == SortedIn(hits, 1, Len(s))
    IN  [k \in 1..Len(at) |-> SubSeq(s, at[k], at[k] + 1)]

\* re.findall(r'(\d{4})\s*[-]\s*(\d{4}|present|current)', s) is non-empty
\* (the en dash of the source class is not an ASCII character)
SearchDateRange(s) ==
    \E i \in 1..Len(s) :
        /\ DigitsAt(s, i, 4)
        /\ \E d \in (i + 4)..Len(s) :
              /\ \A m \in (i + 4)..(d - 1) : IsSpace(Ch(s, m))
              /\ Ch(s, d) = "-"
              /\ \E j \in (d + 1)..Len(s) :
                    /\ \A m \in (d + 1)..(j - 1) : IsSpace(Ch(s, m))
                    /\ (DigitsAt(s, j, 4) \/ AnyAt(s, j, {"present", "current"}))

\* str.isdigit()
IsDigitStr(s) == Len(s) > 0 /\ \A i \in 1..Len(s) : IsDigit(Ch(s, i))

\* str.isalpha()
IsAlphaStr(s) == Len(s) > 0 /\ \A i \in 1..Len(s) : IsAlpha(Ch(s, i))

DigitVal(c) ==
    CASE c = "0" -> 0 [] c = "1" -> 1 [] c = "2" -> 2 [] c = "3" -> 3 [] c = "4" -> 4
      [] c = "5" -> 5 [] c = "6" -> 6 [] c = "7" -> 7 [] c = "8" -> 8 [] c = "9" -> 9

RECURSIVE ParseInt(_)
\* int(s) for a string of decimal digits
ParseInt(s) ==
    IF Len(s) = 0 THEN 0
    ELSE 10 * ParseInt(SubSeq(s, 1, Len(s) - 1)) + DigitVal(Ch(s, Len(s)))

\* int(x) for the rational x = num / den, den > 0: truncation toward zero
TruncDiv(num, den) == IF num >= 0 THEN num \div den ELSE -((-num) \div den)


(***************************************************************************)
(* State                                                                   *)
(***************************************************************************)
VARIABLES
    essential_sections,   \* self.essential_sections: section name -> keywords, in dict order
    action_verbs,         \* self.action_verbs
    technical_skills,     \* self.technical_skills
    resume_text,          \* the argument of the analyze call in progress
    pc,                   \* the position of the call inside analyze
    locals,               \* the local variables of analyze assigned so far
    result,               \* the dictionary analyze returned (defined when pc = "done")
    earlier,              \* results of the earlier calls made with this same text
    frames,               \* thread -> the frame of its analyze call on the shared
                          \* instance: [pc, resume_text, locals, result]
    evaluation            \* the ResumeEvaluator built around the analyzer and the frame
                          \* of its evaluate call: [pc, ai_available, rubric_available,
                          \* resume_text, locals, result]

vars == <<essential_sections, action_verbs, technical_skills,
          resume_text, pc, locals, result, earlier, frames, evaluation>>

\* the state of the caller that uses the instance from a single thread
single == <<resume_text, pc, locals, result, earlier>>

tables == <<essential_sections, action_verbs, technical_skills>>

\* the empty dictionary {} and the value of a name that is not bound
EmptyDict == <<>>

\* d.get(key, False)
Get(d, key) == IF key \in DOMAIN d THEN d[key] ELSE FALSE

(***************************************************************************)
(* __init__: the three tables                                              *)
(***************************************************************************)
InitEssentialSections ==
    << [name |-> "contact",
        keywords |-> <<"email", "phone", "address", "linkedin", "contact", "mobile">>],
       [name |-> "summary",
        keywords |-> <<"summary", "objective", "profile", "about">>],
       [name |-> "skills",
        keywords |-> <<"skills", "technologies", "tools", "proficiencies", "expertise",
                       "competencies">>],
       [name |-> "experience",
        keywords |-> <<"experience", "work", "employment", "job", "internship", "career">>],
       [name |-> "education",
        keywords |-> <<"education", "university", "college", "degree", "academic",
                       "qualification">>],
       [name |-> "projects",
        keywords |-> <<"projects", "portfolio", "work samples">>],
       [name |-> "certifications",
        keywords |-> <<"certifications", "certificates", "certified", "training">>] >>

InitActionVerbs ==
    <<"developed", "created", "built", "designed", "implemented", "led", "managed",
      "improved", "optimized", "achieved", "delivered", "launched", "established",
      "increased", "reduced", "streamlined", "automated", "coordinated", "executed",
      "analyzed", "researched", "collaborated", "initiated", "spearheaded">>

InitTechnicalSkills ==
    <<"python", "java", "javascript", "c++", "sql", "react", "node.js", "angular",
      "aws", "azure", "gcp", "docker", "kubernetes", "git", "agile", "scrum",
      "machine learning", "data analysis", "tensorflow", "pytorch", "pandas",
      "rest api", "microservices", "ci/cd", "devops", "linux", "mongodb", "postgresql">>

\* the sections whose presence is worth 20 points and whose absence is CRITICAL
CriticalSections == {"contact", "skills", "experience", "education"}

\* any(kw in s for kw in seq)
AnyIn(s, seq) == \E k \in DOMAIN seq : Contains(s, seq[k])

\* sum(1 for kw in seq if kw in s)
CountIn(s, seq) == Cardinality({k \in DOMAIN seq : Contains(s, seq[k])})

\* the messages of msgs whose index is in on, in order
Issues(msgs, on) == SelectSeqIdx(msgs, on)

(***************************************************************************)
(* _evaluate_parsability                                                   *)
(***************************************************************************)
SpecialChars == {"|", "_", "=", "+", "[", "]", "{", "}"}

\* the divisors of the ratio tests of lines 149, 155 and 162
ParsabilityDivisors(text) ==
    <<Max2(Len(Split(text)), 1), Max2(Len(text), 1), Max2(Len(SplitLines(text)), 1)>>

\* _evaluate_parsability raises ZeroDivisionError
ParsabilityRaises(text) ==
    \E k \in DOMAIN ParsabilityDivisors(text) : ParsabilityDivisors(text)[k] = 0

_evaluate_parsability(text) ==
    LET words       == Split(text)
        short_words == {k \in DOMAIN words : Len(words[k]) <= 2 /\ IsAlphaStr(words[k])}
        \* len(short_words) / max(len(words), 1) > 0.15
        broken      == 100 * Cardinality(short_words) > 15 * Max2(Len(words), 1)
        special_chars == Cardinality({i \in 1..Len(text) : Ch(text, i) \in SpecialChars})
        \* special_chars / max(len(text), 1) > 0.05
        tabular     == 100 * special_chars > 5 * Max2(Len(text), 1)
        lines       == SplitLines(text)
        very_short_lines ==
            {k \in DOMAIN lines : 0 < Len(Strip(lines[k])) /\ Len(Strip(lines[k])) < 10}
        \* len(very_short_lines) / max(len(lines), 1) > 0.3
        fragmented  == 10 * Cardinality(very_short_lines) > 3 * Max2(Len(lines), 1)
        too_short   == Len(text) < 300
        score       == 100 - (IF broken THEN 30 ELSE 0) - (IF tabular THEN 25 ELSE 0)
                           - (IF fragmented THEN 20 ELSE 0) - (IF too_short THEN 25 ELSE 0)
        issues      ==
            Issues(<<"High ratio of broken/garbled words detected (OCR quality issue)",
                     "Excessive special characters detected - may indicate tables/columns",
                     "Inconsistent line lengths - reading order may be disrupted",
                     "Resume is too short (minimum 300 characters recommended)">>,
                   (IF broken THEN {1} ELSE {}) \cup (IF tabular THEN {2} ELSE {})
                     \cup (IF fragmented THEN {3} ELSE {}) \cup (IF too_short THEN {4} ELSE {}))
    IN  <<Max2(0, score), issues>>

(***************************************************************************)
(* _evaluate_sections                                                      *)
(***************************************************************************)
RECURSIVE SectionsLoop(_, _, _, _, _)
\* the for loop over self.essential_sections.items(), from entry i on
SectionsLoop(text_lower, i, score, issues, detected) ==
    IF i > Len(essential_sections) THEN <<score, issues, detected>>
    ELSE LET section_name == essential_sections[i].name
             keywords     == essential_sections[i].keywords
             found        == AnyIn(text_lower, keywords)
             detected2    == (section_name :> found) @@ detected
         IN  IF found
             THEN SectionsLoop(text_lower, i + 1,
                      score + (IF section_name \in CriticalSections THEN 20 ELSE 10),
                      issues, detected2)
             ELSE SectionsLoop(text_lower, i + 1, score,
                      IF section_name \in CriticalSections
                      THEN Append(issues, "CRITICAL: Missing " \o Title(section_name) \o " section")
                      ELSE IF section_name = "projects"
                      THEN Append(issues, "Missing " \o Title(section_name)
                                            \o " section (important for freshers)")
                      ELSE issues,
                      detected2)

\* detected[section_name] assigned only inside "if found": the mapping is partial
_evaluate_sections_FoundOnly(text_lower) ==
    LET r == SectionsLoop(text_lower, 1, 0, <<>>, EmptyDict)
        found == {k \in DOMAIN r[3] : r[3][k]}
    IN  <<Min2(100, r[1]), r[2], [k \in found |-> TRUE]>>

\* line 196 left out: the sum of the section points is returned as it is
_evaluate_sections_Uncapped(text_lower) ==
    LET r == SectionsLoop(text_lower, 1, 0, <<>>, EmptyDict)
    IN  <<r[1], r[2], r[3]>>

_evaluate_sections(text_lower) ==
    LET r == SectionsLoop(text_lower, 1, 0, <<>>, EmptyDict)
    IN  <<Min2(100, r[1]), r[2], r[3]>>

(***************************************************************************)
(* _evaluate_contact_info                                                  *)
(***************************************************************************)
_evaluate_contact_info(text) ==
    LET no_email    == ~SearchEmail(text)
        no_phone    == ~SearchPhone(text)
        all_lines   == SplitLines(text)
        \* lines = [l.strip() for l in text.split('\n') if l.strip()]
        lines       == SelectSeqIdx([k \in DOMAIN all_lines |-> Strip(all_lines[k])],
                                    {k \in DOMAIN all_lines : Len(Strip(all_lines[k])) > 0})
        long_first  == Len(lines) > 0 /\ Len(Split(lines[1])) > 5
        no_linkedin == ~Contains(Lower(text), "linkedin")
        no_location == ~SearchWord(Lower(text), {"city", "state", "country", "location"})
        score       == 100 - (IF no_email THEN 35 ELSE 0) - (IF no_phone THEN 30 ELSE 0)
                           - (IF long_first THEN 10 ELSE 0) - (IF no_linkedin THEN 15 ELSE 0)
                           - (IF no_location THEN 10 ELSE 0)
        issues      ==
            Issues(<<"CRITICAL: Missing email address",
                     "CRITICAL: Missing or improperly formatted phone number",
                     "First line should be your full name only",
                     "Missing LinkedIn profile URL",
                     "Location information not clearly stated">>,
                   (IF no_email THEN {1} ELSE {}) \cup (IF no_phone THEN {2} ELSE {})
                     \cup (IF long_first THEN {3} ELSE {}) \cup (IF no_linkedin THEN {4} ELSE {})
                     \cup (IF no_location THEN {5} ELSE {}))
    IN  <<Max2(0, score), issues>>


(***************************************************************************)
(* _evaluate_keywords                                                      *)
(***************************************************************************)
\* if c >= 12: +40 / elif c >= 8: +30 / elif c >= 5: +20 / elif c >= 3: +10
SkillPoints(skill_count) ==
    IF skill_count >= 12 THEN 40
    ELSE IF skill_count >= 8 THEN 30
    ELSE IF skill_count >= 5 THEN 20
    ELSE IF skill_count >= 3 THEN 10
    ELSE 0

\* the top tier of the action verbs reached with 6 verbs in place of 8
VerbPoints_SixIsTop(action_verb_count) ==
    IF action_verb_count >= 6 THEN 30
    ELSE IF action_verb_count >= 5 THEN 20
    ELSE IF action_verb_count >= 3 THEN 10
    ELSE 0

\* if c >= 8: +30 / elif c >= 5: +20 / elif c >= 3: +10
VerbPoints(action_verb_count) ==
    IF action_verb_count >= 8 THEN 30
    ELSE IF action_verb_count >= 5 THEN 20
    ELSE IF action_verb_count >= 3 THEN 10
    ELSE 0

\* if m >= 2: +30 / elif m == 1: +15
MetricPoints(metrics_count) ==
    IF metrics_count >= 2 THEN 30
    ELSE IF metrics_count = 1 THEN 15
    ELSE 0

\* [w for w, count in word_freq.items() if count > 10], where word_freq counts
\* the words longer than 4 characters; a dict keeps its keys in the order of
\* first insertion
StuffedWords(words) ==
    LET first == {k \in DOMAIN words :
                    /\ Len(words[k]) > 4
                    /\ \A j \in 1..(k - 1) : words[j] # words[k]
                    /\ Cardinality({j \in DOMAIN words : words[j] = words[k]}) > 10}
    IN  SelectSeqIdx(words, first)

\* the deduction of line 286 made once for each stuffed word
_evaluate_keywords_PenaltyPerWord(text_lower, text) ==
    LET skill_count       == CountIn(text_lower, technical_skills)
        action_verb_count == CountIn(text_lower, action_verbs)
        has_percentages   == SearchDigitsThen(text, "%")
        has_numbers       == SearchCounted(text_lower,
                                 {"users", "customers", "projects", "team", "members"})
        has_money         == SearchMoney(text)
        metrics_count     == (IF has_percentages THEN 1 ELSE 0) + (IF has_numbers THEN 1 ELSE 0)
                               + (IF has_money THEN 1 ELSE 0)
        stuffed_words     == StuffedWords(Split(text_lower))
        score             == SkillPoints(skill_count) + VerbPoints(action_verb_count)
                               + MetricPoints(metrics_count)
                               - 15 * Len(stuffed_words)
        issues            ==
            Issues(<<"Very few relevant technical keywords found",
                     "Insufficient action verbs in experience descriptions",
                     "Missing quantifiable achievements (add metrics, percentages, numbers)",
                     "Possible keyword stuffing detected: "
                        \o Join(SubSeq(stuffed_words, 1, Min2(3, Len(stuffed_words))), ", ")>>,
                   (IF skill_count < 3 THEN {1} ELSE {})
                     \cup (IF action_verb_count < 3 THEN {2} ELSE {})
                     \cup (IF metrics_count = 0 THEN {3} ELSE {})
                     \cup (IF Len(stuffed_words) > 0 THEN {4} ELSE {}))
    IN  <<Min2(100, score), issues>>

_evaluate_keywords(text_lower, text) ==
    LET skill_count       == CountIn(text_lower, technical_skills)
        action_verb_count == CountIn(text_lower, action_verbs)
        has_percentages   == SearchDigitsThen(text, "%")
        has_numbers       == SearchCounted(text_lower,
                                 {"users", "customers", "projects", "team", "members"})
        has_money         == SearchMoney(text)
        metrics_count     == (IF has_percentages THEN 1 ELSE 0) + (IF has_numbers THEN 1 ELSE 0)
                               + (IF has_money THEN 1 ELSE 0)
        stuffed_words     == StuffedWords(Split(text_lower))
        score             == SkillPoints(skill_count) + VerbPoints(action_verb_count)
                               + MetricPoints(metrics_count)
                               - (IF Len(stuffed_words) > 0 THEN 15 ELSE 0)
        issues            ==
            Issues(<<"Very few relevant technical keywords found",
                     "Insufficient action verbs in experience descriptions",
                     "Missing quantifiable achievements (add metrics, percentages, numbers)",
                     "Possible keyword stuffing detected: "
                        \o Join(SubSeq(stuffed_words, 1, Min2(3, Len(stuffed_words))), ", ")>>,
                   (IF skill_count < 3 THEN {1} ELSE {})
                     \cup (IF action_verb_count < 3 THEN {2} ELSE {})
                     \cup (IF metrics_count = 0 THEN {3} ELSE {})
                     \cup (IF Len(stuffed_words) > 0 THEN {4} ELSE {}))
    IN  <<Min2(100, score), issues>>

(***************************************************************************)
(* _evaluate_experience_projects                                           *)
(***************************************************************************)
\* is_fresher of line 304 decided by the keyword count alone
_evaluate_experience_projects_KeywordsOnly(text_lower, detected_sections) ==
    LET has_experience == Get(detected_sections, "experience")
        has_projects   == Get(detected_sections, "projects")
        exp_keywords   == <<"years", "year", "months", "month", "present", "current">>
        exp_mentions   == CountIn(text_lower, exp_keywords)
        is_fresher     == exp_mentions < 2
        project_count  == Count(text_lower, "project")
        fresher_branch ==
            IF ~has_projects
            THEN <<40, <<"CRITICAL: No projects section found (essential for freshers)">> >>
            ELSE IF project_count < 2
            THEN <<60, <<"Only one project listed - add at least 2-3 substantial projects">> >>
            ELSE <<100, <<>> >>
        no_exp ==
            IF ~has_experience
            THEN <<30, <<"CRITICAL: No experience section found (essential for experienced candidates)">> >>
            ELSE <<100, <<>> >>
        experienced_branch ==
            IF ~has_projects
            THEN <<no_exp[1] - 20,
                   Append(no_exp[2],
                          "Consider adding a projects section to showcase additional work")>>
            ELSE no_exp
        r == IF is_fresher THEN fresher_branch ELSE experienced_branch
    IN  <<Max2(0, r[1]), r[2], is_fresher>>

\* the keywords of line 303 matched as whole words, not as substrings
_evaluate_experience_projects_WholeWords(text_lower, detected_sections) ==
    LET has_experience == Get(detected_sections, "experience")
        has_projects   == Get(detected_sections, "projects")
        exp_keywords   == <<"years", "year", "months", "month", "present", "current">>
        exp_mentions   == Cardinality({k \in DOMAIN exp_keywords :
                                            SearchWord(text_lower, {exp_keywords[k]})})
        is_fresher     == ~has_experience \/ exp_mentions < 2
        project_count  == Count(text_lower, "project")
        fresher_branch ==
            IF ~has_projects
            THEN <<40, <<"CRITICAL: No projects section found (essential for freshers)">> >>
            ELSE IF project_count < 2
            THEN <<60, <<"Only one project listed - add at least 2-3 substantial projects">> >>
            ELSE <<100, <<>> >>
        no_exp ==
            IF ~has_experience
            THEN <<30, <<"CRITICAL: No experience section found (essential for experienced candidates)">> >>
            ELSE <<100, <<>> >>
        experienced_branch ==
            IF ~has_projects
            THEN <<no_exp[1] - 20,
                   Append(no_exp[2],
                          "Consider adding a projects section to showcase additional work")>>
            ELSE no_exp
        r == IF is_fresher THEN fresher_branch ELSE experienced_branch
    IN  <<Max2(0, r[1]), r[2], is_fresher>>

_evaluate_experience_projects(text_lower, detected_sections) ==
    LET has_experience == Get(detected_sections, "experience")
        has_projects   == Get(detected_sections, "projects")
        exp_keywords   == <<"years", "year", "months", "month", "present", "current">>
        exp_mentions   == CountIn(text_lower, exp_keywords)
        is_fresher     == ~has_experience \/ exp_mentions < 2
        project_count  == Count(text_lower, "project")
        fresher_branch ==
            IF ~has_projects
            THEN <<40, <<"CRITICAL: No projects section found (essential for freshers)">> >>
            ELSE IF project_count < 2
            THEN <<60, <<"Only one project listed - add at least 2-3 substantial projects">> >>
            ELSE <<100, <<>> >>
        no_exp ==
            IF ~has_experience
            THEN <<30, <<"CRITICAL: No experience section found (essential for experienced candidates)">> >>
            ELSE <<100, <<>> >>
        experienced_branch ==
            IF ~has_projects
            THEN <<no_exp[1] - 20,
                   Append(no_exp[2],
                          "Consider adding a projects section to showcase additional work")>>
            ELSE no_exp
        r == IF is_fresher THEN fresher_branch ELSE experienced_branch
    IN  <<Max2(0, r[1]), r[2], is_fresher>>

(***************************************************************************)
(* _evaluate_bullet_points                                                 *)
(***************************************************************************)
\* the ASCII members of the glyph tuple of line 338
BulletGlyphs == {"-", "*"}

\* re.search(r'\d+%|\d+x|improved|increased|reduced|achieved', s)
SearchOutcome(s) ==
    \/ SearchDigitsThen(s, "%")
    \/ SearchDigitsThen(s, "x")
    \/ \E w \in {"improved", "increased", "reduced", "achieved"} : Contains(s, w)

\* the body of the loop over bullet_lines[:10]: is this bullet weak
WeakBullet(bullet) ==
    LET bullet_text     == Lower(Strip(LStrip(Strip(bullet), BulletGlyphs)))
        has_action_verb == \E k \in DOMAIN action_verbs : StartsWith(bullet_text, action_verbs[k])
        has_tool        == AnyIn(bullet_text, technical_skills)
        has_outcome     == SearchOutcome(bullet_text)
        components      == (IF has_action_verb THEN 1 ELSE 0) + (IF has_tool THEN 1 ELSE 0)
                             + (IF has_outcome THEN 1 ELSE 0)
    IN  components < 2

\* the loop of line 346 run over every bullet line, without the [:10]
_evaluate_bullet_points_AllBullets(text) ==
    LET lines        == SplitLines(text)
        bullet_idx   == {k \in DOMAIN lines :
                            \E g \in BulletGlyphs : StartsWith(Strip(lines[k]), g)}
        bullet_lines == SelectSeqIdx(lines, bullet_idx)
        weak_bullets == Cardinality({k \in DOMAIN bullet_lines : WeakBullet(bullet_lines[k])})
    IN  IF Len(bullet_lines) = 0
        THEN <<Max2(0, 100 - 40),
               <<"CRITICAL: No bullet points found - use bullets for achievements">> >>
        ELSE IF weak_bullets > 5
        THEN <<Max2(0, 100 - 30),
               <<"Many weak bullet points - use format: Action Verb + Task + Method + Outcome">> >>
        ELSE IF weak_bullets > 2
        THEN <<Max2(0, 100 - 15),
               <<"Some bullet points lack structure - add action verbs and outcomes">> >>
        ELSE <<Max2(0, 100), <<>> >>

_evaluate_bullet_points(text) ==
    LET lines        == SplitLines(text)
        bullet_idx   == {k \in DOMAIN lines :
                            \E g \in BulletGlyphs : StartsWith(Strip(lines[k]), g)}
        bullet_lines == SelectSeqIdx(lines, bullet_idx)
        examined     == SubSeq(bullet_lines, 1, Min2(10, Len(bullet_lines)))
        weak_bullets == Cardinality({k \in DOMAIN examined : WeakBullet(examined[k])})
    IN  IF Len(bullet_lines) = 0
        THEN <<Max2(0, 100 - 40),
               <<"CRITICAL: No bullet points found - use bullets for achievements">> >>
        ELSE IF weak_bullets > 5
        THEN <<Max2(0, 100 - 30),
               <<"Many weak bullet points - use format: Action Verb + Task + Method + Outcome">> >>
        ELSE IF weak_bullets > 2
        THEN <<Max2(0, 100 - 15),
               <<"Some bullet points lack structure - add action verbs and outcomes">> >>
        ELSE <<Max2(0, 100), <<>> >>

(***************************************************************************)
(* _evaluate_dates                                                         *)
(***************************************************************************)
\* the ratio of line 396 taken over all the century tokens found, ahead of the
\* early return of line 380 and with no max(..., 1) in the divisor
DatesRaises_Unguarded(text) == Len(FindallCentury(text)) - 1 = 0

\* _evaluate_dates raises ZeroDivisionError: the division of line 396 is
\* reached with at least 2 dates and 3 date_years, by max(len(date_years)-1, 1)
DatesRaises(text) ==
    LET dates      == FindallCentury(text)
        date_years == {k \in DOMAIN dates : IsDigitStr(dates[k])}
    IN  /\ Len(dates) >= 2
        /\ Cardinality(date_years) >= 3
        /\ Max2(Cardinality(date_years) - 1, 1) = 0

\* line 383 without its return: the 40 is deducted and the range and
\* chronology checks still run
_evaluate_dates_NoEarlyReturn(text) ==
    LET dates        == FindallCentury(text)
        too_few      == Len(dates) < 2
        no_ranges    == ~SearchDateRange(Lower(text))
        digit_idx    == {k \in DOMAIN dates : IsDigitStr(dates[k])}
        digit_dates  == SelectSeqIdx(dates, digit_idx)
        date_years   == [k \in DOMAIN digit_dates |-> ParseInt(digit_dates[k])]
        descending_pairs ==
            Cardinality({i \in 1..(Len(date_years) - 1) : date_years[i] >= date_years[i + 1]})
        disordered   == /\ Len(date_years) >= 3
                        /\ 10 * descending_pairs < 5 * Max2(Len(date_years) - 1, 1)
        score        == 100 - (IF too_few THEN 40 ELSE 0) - (IF no_ranges THEN 20 ELSE 0)
                            - (IF disordered THEN 15 ELSE 0)
        issues       ==
            Issues(<<"Missing dates for experience/education - add MM/YYYY format dates",
                     "Use date ranges (e.g., '2020 - 2023') for positions",
                     "Dates should be in reverse chronological order (most recent first)">>,
                   (IF too_few THEN {1} ELSE {}) \cup (IF no_ranges THEN {2} ELSE {})
                     \cup (IF disordered THEN {3} ELSE {}))
    IN  <<Max2(0, score), issues>>

_evaluate_dates(text) ==
    LET dates        == FindallCentury(text)
        no_ranges    == ~SearchDateRange(Lower(text))
        digit_idx    == {k \in DOMAIN dates : IsDigitStr(dates[k])}
        digit_dates  == SelectSeqIdx(dates, digit_idx)
        date_years   == [k \in DOMAIN digit_dates |-> ParseInt(digit_dates[k])]
        descending_pairs ==
            Cardinality({i \in 1..(Len(date_years) - 1) : date_years[i] >= date_years[i + 1]})
        \* descending_pairs / max(len(date_years) - 1, 1) < 0.5
        disordered   == /\ Len(date_years) >= 3
                        /\ 10 * descending_pairs < 5 * Max2(Len(date_years) - 1, 1)
        score        == 100 - (IF no_ranges THEN 20 ELSE 0) - (IF disordered THEN 15 ELSE 0)
        issues       ==
            Issues(<<"Use date ranges (e.g., '2020 - 2023') for positions",
                     "Dates should be in reverse chronological order (most recent first)">>,
                   (IF no_ranges THEN {1} ELSE {}) \cup (IF disordered THEN {2} ELSE {}))
    IN  IF Len(dates) < 2
        THEN <<Max2(0, 100 - 40),
               <<"Missing dates for experience/education - add MM/YYYY format dates">> >>
        ELSE <<Max2(0, score), issues>>


(***************************************************************************)
(* _apply_score_caps                                                       *)
(***************************************************************************)
NoCap == "No cap applied"

\* max(caps, key=lambda x: x[0]) in place of min
MinCap_Max(caps) ==
    caps[CHOOSE i \in DOMAIN caps : \A j \in DOMAIN caps : caps[i][1] >= caps[j][1]]

\* min(caps, key=lambda x: x[0]): the first entry of least cap value
MinCap(caps) ==
    caps[CHOOSE i \in DOMAIN caps :
            /\ \A j \in DOMAIN caps : caps[i][1] <= caps[j][1]
            /\ \A j \in 1..(i - 1) : caps[j][1] # caps[i][1]]

\* line 428 dropped: the lowest cap is returned whether or not raw_score exceeds it
_apply_score_caps_Unconditional(raw_score, parsability, is_fresher, bullet_score, keyword_score, detected_sections) ==
    LET caps ==
            Issues(<< <<55, "Parsability issues">>,
                      <<60, "No projects (fresher)">>,
                      <<65, "Weak bullet points">>,
                      <<70, "Insufficient keywords">> >>,
                   (IF parsability < 60 THEN {1} ELSE {})
                     \cup (IF is_fresher /\ ~Get(detected_sections, "projects") THEN {2} ELSE {})
                     \cup (IF bullet_score < 60 THEN {3} ELSE {})
                     \cup (IF keyword_score < 50 THEN {4} ELSE {}))
    IN  IF Len(caps) > 0 THEN MinCap(caps) ELSE <<raw_score, NoCap>>

\* line 410 with the threshold 80 in place of 60
_apply_score_caps_Parsability80(raw_score, parsability, is_fresher, bullet_score, keyword_score, detected_sections) ==
    LET caps ==
            Issues(<< <<55, "Parsability issues">>,
                      <<60, "No projects (fresher)">>,
                      <<65, "Weak bullet points">>,
                      <<70, "Insufficient keywords">> >>,
                   (IF parsability < 80 THEN {1} ELSE {})
                     \cup (IF is_fresher /\ ~Get(detected_sections, "projects") THEN {2} ELSE {})
                     \cup (IF bullet_score < 60 THEN {3} ELSE {})
                     \cup (IF keyword_score < 50 THEN {4} ELSE {}))
    IN  IF Len(caps) > 0 /\ raw_score > MinCap(caps)[1]
        THEN MinCap(caps)
        ELSE <<raw_score, NoCap>>

\* line 414 without its "not": the cap is collected for freshers that have projects
_apply_score_caps_FresherWithProjects(raw_score, parsability, is_fresher, bullet_score, keyword_score, detected_sections) ==
    LET caps ==
            Issues(<< <<55, "Parsability issues">>,
                      <<60, "No projects (fresher)">>,
                      <<65, "Weak bullet points">>,
                      <<70, "Insufficient keywords">> >>,
                   (IF parsability < 60 THEN {1} ELSE {})
                     \cup (IF is_fresher /\ Get(detected_sections, "projects") THEN {2} ELSE {})
                     \cup (IF bullet_score < 60 THEN {3} ELSE {})
                     \cup (IF keyword_score < 50 THEN {4} ELSE {}))
    IN  IF Len(caps) > 0 /\ raw_score > MinCap(caps)[1]
        THEN MinCap(caps)
        ELSE <<raw_score, NoCap>>

\* line 418 with <= in place of <
_apply_score_caps_BulletsAtMost60(raw_score, parsability, is_fresher, bullet_score, keyword_score, detected_sections) ==
    LET caps ==
            Issues(<< <<55, "Parsability issues">>,
                      <<60, "No projects (fresher)">>,
                      <<65, "Weak bullet points">>,
                      <<70, "Insufficient keywords">> >>,
                   (IF parsability < 60 THEN {1} ELSE {})
                     \cup (IF is_fresher /\ ~Get(detected_sections, "projects") THEN {2} ELSE {})
                     \cup (IF bullet_score <= 60 THEN {3} ELSE {})
                     \cup (IF keyword_score < 50 THEN {4} ELSE {}))
    IN  IF Len(caps) > 0 /\ raw_score > MinCap(caps)[1]
        THEN MinCap(caps)
        ELSE <<raw_score, NoCap>>

_apply_score_caps(raw_score, parsability, is_fresher, bullet_score, keyword_score, detected_sections) ==
    LET caps ==
            Issues(<< <<55, "Parsability issues">>,
                      <<60, "No projects (fresher)">>,
                      <<65, "Weak bullet points">>,
                      <<70, "Insufficient keywords">> >>,
                   (IF parsability < 60 THEN {1} ELSE {})
                     \cup (IF is_fresher /\ ~Get(detected_sections, "projects") THEN {2} ELSE {})
                     \cup (IF bullet_score < 60 THEN {3} ELSE {})
                     \cup (IF keyword_score < 50 THEN {4} ELSE {}))
    IN  IF Len(caps) > 0 /\ raw_score > MinCap(caps)[1]
        THEN MinCap(caps)
        ELSE <<raw_score, NoCap>>

(***************************************************************************)
(* _generate_strengths_weaknesses                                          *)
(***************************************************************************)
\* line 471 without its test: the cap entry is appended on every call
_generate_strengths_weaknesses_CapAlways(parsability, section, contact, keyword, exp_project, bullet, date, cap_reason) ==
    LET strengths ==
            Issues(<<"Clean, ATS-parsable format",
                     "All essential sections present",
                     "Complete contact information",
                     "Good keyword density and relevance",
                     "Well-structured bullet points with outcomes",
                     "Proper chronological organization">>,
                   (IF parsability >= 80 THEN {1} ELSE {})
                     \cup (IF section >= 80 THEN {2} ELSE {})
                     \cup (IF contact >= 80 THEN {3} ELSE {})
                     \cup (IF keyword >= 70 THEN {4} ELSE {})
                     \cup (IF bullet >= 80 THEN {5} ELSE {})
                     \cup (IF date >= 80 THEN {6} ELSE {}))
        weaknesses ==
            Issues(<<"OCR quality issues affecting parsability",
                     "Missing critical resume sections",
                     "Incomplete contact information",
                     "Insufficient relevant keywords and skills",
                     "Weak experience/project presentation",
                     "Bullet points lack structure and impact",
                     "Missing or inconsistent dates",
                     "Score capped due to: " \o cap_reason>>,
                   (IF parsability < 60 THEN {1} ELSE {})
                     \cup (IF section < 60 THEN {2} ELSE {})
                     \cup (IF contact < 60 THEN {3} ELSE {})
                     \cup (IF keyword < 50 THEN {4} ELSE {})
                     \cup (IF exp_project < 60 THEN {5} ELSE {})
                     \cup (IF bullet < 60 THEN {6} ELSE {})
                     \cup (IF date < 60 THEN {7} ELSE {})
                     \cup {8})
    IN  <<strengths, weaknesses>>

_generate_strengths_weaknesses(parsability, section, contact, keyword, exp_project, bullet, date, cap_reason) ==
    LET strengths ==
            Issues(<<"Clean, ATS-parsable format",
                     "All essential sections present",
                     "Complete contact information",
                     "Good keyword density and relevance",
                     "Well-structured bullet points with outcomes",
                     "Proper chronological organization">>,
                   (IF parsability >= 80 THEN {1} ELSE {})
                     \cup (IF section >= 80 THEN {2} ELSE {})
                     \cup (IF contact >= 80 THEN {3} ELSE {})
                     \cup (IF keyword >= 70 THEN {4} ELSE {})
                     \cup (IF bullet >= 80 THEN {5} ELSE {})
                     \cup (IF date >= 80 THEN {6} ELSE {}))
        weaknesses ==
            Issues(<<"OCR quality issues affecting parsability",
                     "Missing critical resume sections",
                     "Incomplete contact information",
                     "Insufficient relevant keywords and skills",
                     "Weak experience/project presentation",
                     "Bullet points lack structure and impact",
                     "Missing or inconsistent dates",
                     "Score capped due to: " \o cap_reason>>,
                   (IF parsability < 60 THEN {1} ELSE {})
                     \cup (IF section < 60 THEN {2} ELSE {})
                     \cup (IF contact < 60 THEN {3} ELSE {})
                     \cup (IF keyword < 50 THEN {4} ELSE {})
                     \cup (IF exp_project < 60 THEN {5} ELSE {})
                     \cup (IF bullet < 60 THEN {6} ELSE {})
                     \cup (IF date < 60 THEN {7} ELSE {})
                     \cup (IF cap_reason # NoCap THEN {8} ELSE {}))
    IN  <<strengths, weaknesses>>

(***************************************************************************)
(* analyze: the weighted score before caps (lines 90-98)                   *)
(***************************************************************************)
\* the weighted sum with the contact weight 0.20 in place of 0.10
WeightedScore_Contact20(p, s, c, k, e, b, d) ==
    TruncDiv(15 * p + 20 * s + 20 * c + 25 * k + 15 * e + 10 * b + 5 * d, 100)

\* the weights taken as whole percents and the sum divided by 100 twice, which
\* leaves a fraction of 1 that truncates to 0
WeightedScore_Fraction(p, s, c, k, e, b, d) ==
    TruncDiv(TruncDiv(15 * p + 20 * s + 10 * c + 25 * k + 15 * e + 10 * b + 5 * d, 100), 100)

\* round() in place of int(): the weighted sum rounded half up
WeightedScore_Rounded(p, s, c, k, e, b, d) ==
    TruncDiv(15 * p + 20 * s + 10 * c + 25 * k + 15 * e + 10 * b + 5 * d + 50, 100)

\* int(p*0.15 + s*0.20 + c*0.10 + k*0.25 + e*0.15 + b*0.10 + d*0.05): every
\* component score is a multiple of 5, so the sum is a multiple of 0.25 and
\* the double-precision sum truncates to the same integer as the exact one
WeightedScore(p, s, c, k, e, b, d) ==
    TruncDiv(15 * p + 20 * s + 10 * c + 25 * k + 15 * e + 10 * b + 5 * d, 100)

\* the length test of line 55 with the bound one too low
TooShort_Below49(text) == Len(text) = 0 \/ Len(Strip(text)) < 49

\* the length test of line 55 with <= in place of <
TooShort_AtMost50(text) == Len(text) = 0 \/ Len(Strip(text)) <= 50

\* if not resume_text or len(resume_text.strip()) < 50
TooShort(text) == Len(text) = 0 \/ Len(Strip(text)) < 50


(***************************************************************************)
(* The resume texts given to analyze                                       *)
(***************************************************************************)
\* the most parts of the catalogue joined into one text
MaxParts == 5

\* the most repeated calls made with the same text after the first one
MaxRepeats == 1

\* parts of a resume: header, summary, skills, experience with bullets,
\* education, projects, certification, a ruled table line, a stuffed line
Fragments ==
    <<
       "John Doe\njohn.doe@example.com | 555-123-4567 | linkedin.com/in/johndoe\nLocation: Austin",
       "SUMMARY\nBackend engineer with 6 years of experience, current focus on data platforms",
       "Skills: Python, Java, JavaScript, SQL, React, AWS, Docker, Git\nKubernetes, Linux, MongoDB, PostgreSQL",
       "EXPERIENCE\nAcme Corp 2021 - Present\n- Developed python services and reduced latency by 40%\n- Built docker pipelines and improved releases for 12 users\n- Designed sql reports and increased revenue by $5000\n- Led aws migration and achieved 3x throughput",
       "EDUCATION\nState University 2015 - 2019",
       "PROJECTS\n* Created a react project for 30 customers\n* Implemented a java project and automated tests",
       "Certified trainer",
       "| a | b | c | d | e | f | == ++ [] {} __ ||",
       "scalable scalable scalable scalable scalable scalable scalable scalable scalable scalable scalable"
    >>

\* texts on both sides of the 50-character test of line 55
ShortTexts ==
    {
     "",
     "   ",
     "John Doe",
     "xxxxxxxxxxxxxxxxxxxxxxxxxxxxxxxxxxxxxxxxxxxxxxxxx",
     "xxxxxxxxxxxxxxxxxxxxxxxxxxxxxxxxxxxxxxxxxxxxxxxxxx",
     "          xxxxxxxxxxxxxxxxxxxxxxxxxxxxxxxxxxxxxxxxxxxxx          "
    }

\* whole resumes: the second scenario of the specification (eight skills, six
\* action verbs, two kinds of metric, ten full bullets), a text with two
\* stuffed words, a text whose short lines are followed by blank lines, a
\* text that mentions years and months without an experience section, and a
\* text with an experience section and a single mention of a project
ScenarioTexts ==
    {
     "Jane Roe\njane.roe@example.com 555-987-6543 linkedin.com/in/janeroe\nLocation: Denver\nEngineer for 8 years\nSKILLS\nPython, SQL, React, AWS, Docker, Linux, Pandas, Scrum\nEXPERIENCE\nBeta Inc 2019 - 2023\n- Developed python jobs and cut cost 20%\n- Created sql views with 2x speed\n- Built react pages with 3x speed\n- Designed aws stacks with 4x reach\n- Implemented docker images with 5x speed\n- Managed linux hosts and saved $900\n- Developed pandas reports with 2x reach\n- Created python tools with 3x reach\n- Built sql checks with 4x speed\n- Designed react forms with 5x reach\nEDUCATION\nState College 2015 - 2019",
     "scalable robust scalable robust scalable robust scalable robust scalable robust scalable robust scalable robust scalable robust scalable robust scalable robust scalable robust",
     "John Doe\nAustin\nEngineer\n\n\n\n\nwrites long lines of plain text every day\nreads long lines of plain text every day\nkeeps long lines of plain text every day\nsends long lines of plain text every day",
     "Ann Lee\nSpent 3 years and 6 months building things at home for fun\nportfolio of 2 projects online",
     "Ann Lee\nEXPERIENCE\nShop assistant for the summer season at a store\nportfolio of games online"
    }

\* texts with three or more years: ascending within one century, of two
\* centuries in turn with and without a range, and descending
DateTexts ==
    {
     "Ann Lee\nSchool 2015\nCollege 2019\nJoined the town store as a clerk in 2021",
     "Ann Lee\nBorn 1999\nSchool 2015\nDiploma 1998 - 2016 at the town college",
     "Ann Lee\nBorn 1999\nSchool 2015\nDiploma 1998 and 2016 at the town college",
     "Ann Lee\nStore clerk 2021\nCollege 2019\nSchool 2015 in the town of Austin"
    }

\* texts with 2, 3, 5 and 6 weak bullets next to a full one, and a text
\* whose first ten bullets are full and whose six later bullets are weak
BulletTexts ==
    {
     "Ann Lee of the town of Austin\n- went to the store\n- sat at the desk\n- Led sql work",
     "Ann Lee of the town of Austin\n- went to the store\n- sat at the desk\n- read the paper\n- Led sql work",
     "Ann Lee of the town of Austin\n- went to the store\n- sat at the desk\n- read the paper\n* made some tea\n- took the bus\n- Led sql work",
     "Ann Lee of the town of Austin\n- went to the store\n- sat at the desk\n- read the paper\n* made some tea\n- took the bus\n- fed the cat\n- Led sql work",
     "Ann Lee\n- Led sql work\n- Led sql work\n- Led sql work\n- Led sql work\n- Led sql work\n- Led sql work\n- Led sql work\n- Led sql work\n- Led sql work\n- Led sql work\n- went to the store\n- sat at the desk\n- read the paper\n* made some tea\n- took the bus\n- fed the cat"
    }

\* a text that names all seven sections
SectionTexts ==
    {
     "Contact\nSummary\nSkills\nExperience\nEducation\nProjects\nCertified member of the guild"
    }

\* '\n'.join of the fragments picked by the index set S, in catalogue order
TextOf(S) == Join(SelectSeqIdx(Fragments, S), "\n")

Texts ==
    ShortTexts \cup ScenarioTexts \cup DateTexts \cup BulletTexts \cup SectionTexts \cup
    {TextOf(S) : S \in {P \in SUBSET DOMAIN Fragments :
                            Cardinality(P) >= 1 /\ Cardinality(P) <= MaxParts}}

(***************************************************************************)
(* analyze, one action per statement of its body                           *)
(***************************************************************************)
\* the threads that call analyze on one shared instance
Callers == {1, 2}

\* a thread that has not called analyze yet
IdleFrame == [pc |-> "idle", resume_text |-> "", locals |-> EmptyDict, result |-> EmptyDict]

\* no ResumeEvaluator has been constructed
NoEvaluator ==
    [pc |-> "new", ai_available |-> FALSE, rubric_available |-> FALSE,
     resume_text |-> "", locals |-> EmptyDict, result |-> EmptyDict]

Init ==
    /\ essential_sections = InitEssentialSections
    /\ action_verbs = InitActionVerbs
    /\ technical_skills = InitTechnicalSkills
    /\ resume_text = ""
    /\ pc = "idle"
    /\ locals = EmptyDict
    /\ result = EmptyDict
    /\ earlier = <<>>
    /\ frames = [c \in Callers |-> IdleFrame]
    /\ evaluation = NoEvaluator

\* a caller invokes analyze(t)
Call(t) ==
    /\ pc \in {"idle", "done"}
    /\ resume_text' = t
    /\ pc' = "check"
    /\ locals' = EmptyDict
    /\ result' = EmptyDict
    /\ earlier' = <<>>
    /\ UNCHANGED <<tables, frames, evaluation>>

\* the caller keeps the result and invokes analyze again with the same text
CallAgain ==
    /\ pc = "done"
    /\ Len(earlier) < MaxRepeats
    /\ earlier' = Append(earlier, result)
    /\ pc' = "check"
    /\ locals' = EmptyDict
    /\ result' = EmptyDict
    /\ UNCHANGED <<tables, resume_text, frames, evaluation>>

ShortResult ==
    [score |-> 0,
     issues |-> <<"Resume text is too short or empty">>,
     strengths |-> <<>>,
     weaknesses |-> <<"Insufficient content for analysis">>,
     component_scores |-> EmptyDict]

\* lines 55-64
CheckInput ==
    /\ pc = "check"
    /\ IF TooShort(resume_text)
       THEN /\ result' = ShortResult
            /\ pc' = "done"
            /\ UNCHANGED locals
       ELSE /\ locals' = [text_lower |-> Lower(resume_text)]
            /\ pc' = "parsability"
            /\ UNCHANGED result
    /\ UNCHANGED <<tables, resume_text, earlier, frames, evaluation>>

\* line 67
EvalParsability ==
    /\ pc = "parsability"
    /\ IF ParsabilityRaises(resume_text)
       THEN /\ pc' = "error"
            /\ UNCHANGED locals
       ELSE /\ LET r == _evaluate_parsability(resume_text)
               IN  locals' = locals @@ [parsability_score |-> r[1],
                                        parsability_issues |-> r[2]]
            /\ pc' = "sections"
    /\ UNCHANGED <<tables, resume_text, result, earlier, frames, evaluation>>

\* line 70
EvalSections ==
    /\ pc = "sections"
    /\ LET r == _evaluate_sections(locals.text_lower)
       IN  locals' = locals @@ [section_score |-> r[1], section_issues |-> r[2],
                                detected_sections |-> r[3]]
    /\ pc' = "contact"
    /\ UNCHANGED <<tables, resume_text, result, earlier, frames, evaluation>>

\* line 73
EvalContact ==
    /\ pc = "contact"
    /\ LET r == _evaluate_contact_info(resume_text)
       IN  locals' = locals @@ [contact_score |-> r[1], contact_issues |-> r[2]]
    /\ pc' = "keywords"
    /\ UNCHANGED <<tables, resume_text, result, earlier, frames, evaluation>>

\* line 76 with a sub-evaluation that removes the skills it found from
\* self.technical_skills
EvalKeywords_ConsumesSkills ==
    /\ pc = "keywords"
    /\ LET r == _evaluate_keywords(locals.text_lower, resume_text)
       IN  locals' = locals @@ [keyword_score |-> r[1], keyword_issues |-> r[2]]
    /\ technical_skills' =
          SelectSeqIdx(technical_skills,
                       {k \in DOMAIN technical_skills :
                           ~Contains(locals.text_lower, technical_skills[k])})
    /\ pc' = "experience_projects"
    /\ UNCHANGED <<essential_sections, action_verbs, resume_text, result, earlier, frames, evaluation>>

\* line 76
EvalKeywords ==
    /\ pc = "keywords"
    /\ LET r == _evaluate_keywords(locals.text_lower, resume_text)
       IN  locals' = locals @@ [keyword_score |-> r[1], keyword_issues |-> r[2]]
    /\ pc' = "experience_projects"
    /\ UNCHANGED <<tables, resume_text, result, earlier, frames, evaluation>>

\* lines 79-81
EvalExperienceProjects ==
    /\ pc = "experience_projects"
    /\ LET r == _evaluate_experience_projects(locals.text_lower, locals.detected_sections)
       IN  locals' = locals @@ [exp_project_score |-> r[1], exp_project_issues |-> r[2],
                                is_fresher |-> r[3]]
    /\ pc' = "bullets"
    /\ UNCHANGED <<tables, resume_text, result, earlier, frames, evaluation>>

\* line 84
EvalBullets ==
    /\ pc = "bullets"
    /\ LET r == _evaluate_bullet_points(resume_text)
       IN  locals' = locals @@ [bullet_score |-> r[1], bullet_issues |-> r[2]]
    /\ pc' = "dates"
    /\ UNCHANGED <<tables, resume_text, result, earlier, frames, evaluation>>

\* line 87
EvalDates ==
    /\ pc = "dates"
    /\ IF DatesRaises(resume_text)
       THEN /\ pc' = "error"
            /\ UNCHANGED locals
       ELSE /\ LET r == _evaluate_dates(resume_text)
               IN  locals' = locals @@ [date_score |-> r[1], date_issues |-> r[2]]
            /\ pc' = "raw_score"
    /\ UNCHANGED <<tables, resume_text, result, earlier, frames, evaluation>>

\* lines 90-98
Aggregate ==
    /\ pc = "raw_score"
    /\ locals' = locals @@
          [raw_score |-> WeightedScore(locals.parsability_score, locals.section_score,
                             locals.contact_score, locals.keyword_score,
                             locals.exp_project_score, locals.bullet_score,
                             locals.date_score)]
    /\ pc' = "caps"
    /\ UNCHANGED <<tables, resume_text, result, earlier, frames, evaluation>>

\* lines 101-104 with the fresher flag decided again from the experience
\* section alone, in place of the is_fresher the sub-evaluation returned
ApplyCaps_FresherBySection ==
    /\ pc = "caps"
    /\ LET r == _apply_score_caps(locals.raw_score, locals.parsability_score,
                    ~Get(locals.detected_sections, "experience"), locals.bullet_score,
                    locals.keyword_score, locals.detected_sections)
       IN  locals' = locals @@ [final_score |-> r[1], cap_reason |-> r[2]]
    /\ pc' = "issues"
    /\ UNCHANGED <<tables, resume_text, result, earlier, frames, evaluation>>

\* lines 101-104
ApplyCaps ==
    /\ pc = "caps"
    /\ LET r == _apply_score_caps(locals.raw_score, locals.parsability_score,
                    locals.is_fresher, locals.bullet_score, locals.keyword_score,
                    locals.detected_sections)
       IN  locals' = locals @@ [final_score |-> r[1], cap_reason |-> r[2]]
    /\ pc' = "issues"
    /\ UNCHANGED <<tables, resume_text, result, earlier, frames, evaluation>>

\* lines 107-114 with the keyword issues extended first
CollectIssues_KeywordsFirst ==
    /\ pc = "issues"
    /\ locals' = locals @@
          [all_issues |-> locals.keyword_issues \o locals.parsability_issues
                            \o locals.section_issues \o locals.contact_issues
                            \o locals.exp_project_issues \o locals.bullet_issues
                            \o locals.date_issues]
    /\ pc' = "strengths_weaknesses"
    /\ UNCHANGED <<tables, resume_text, result, earlier, frames, evaluation>>

\* lines 107-114
CollectIssues ==
    /\ pc = "issues"
    /\ locals' = locals @@
          [all_issues |-> locals.parsability_issues \o locals.section_issues
                            \o locals.contact_issues \o locals.keyword_issues
                            \o locals.exp_project_issues \o locals.bullet_issues
                            \o locals.date_issues]
    /\ pc' = "strengths_weaknesses"
    /\ UNCHANGED <<tables, resume_text, result, earlier, frames, evaluation>>

\* lines 117-120
GenerateStrengthsWeaknesses ==
    /\ pc = "strengths_weaknesses"
    /\ LET r == _generate_strengths_weaknesses(locals.parsability_score,
                    locals.section_score, locals.contact_score, locals.keyword_score,
                    locals.exp_project_score, locals.bullet_score, locals.date_score,
                    locals.cap_reason)
       IN  locals' = locals @@ [strengths |-> r[1], weaknesses |-> r[2]]
    /\ pc' = "return"
    /\ UNCHANGED <<tables, resume_text, result, earlier, frames, evaluation>>

\* lines 122-139
Return ==
    /\ pc = "return"
    /\ result' =
          [score |-> locals.final_score,
           raw_score |-> locals.raw_score,
           cap_applied |-> locals.cap_reason,
           component_scores |->
              [parsability |-> locals.parsability_score,
               section_detection |-> locals.section_score,
               contact_information |-> locals.contact_score,
               keyword_matching |-> locals.keyword_score,
               experience_projects |-> locals.exp_project_score,
               bullet_structure |-> locals.bullet_score,
               dates_chronology |-> locals.date_score],
           issues |-> locals.all_issues,
           strengths |-> locals.strengths,
           weaknesses |-> locals.weaknesses,
           detected_sections |-> locals.detected_sections]
    /\ pc' = "done"
    /\ UNCHANGED <<tables, resume_text, locals, earlier, frames, evaluation>>

Next ==
    \/ \E t \in Texts : Call(t)
    \/ CallAgain
    \/ CheckInput
    \/ EvalParsability
    \/ EvalSections
    \/ EvalContact
    \/ EvalKeywords
    \/ EvalExperienceProjects
    \/ EvalBullets
    \/ EvalDates
    \/ Aggregate
    \/ ApplyCaps
    \/ CollectIssues
    \/ GenerateStrengthsWeaknesses
    \/ Return

Spec == Init /\ [][Next]_vars

\* the positions of a call in the order of the statements of analyze
PcOrder ==
    <<"check", "parsability", "sections", "contact", "keywords", "experience_projects",
      "bullets", "dates", "raw_score", "caps", "issues", "strengths_weaknesses",
      "return", "done">>

\* how far a call at position p is into analyze: the body is straight-line
\* code over bounded loops, so a call returns once it has passed every
\* position; 0 before a call and after a raise
Rank(p) ==
    IF \E i \in DOMAIN PcOrder : PcOrder[i] = p
    THEN CHOOSE i \in DOMAIN PcOrder : PcOrder[i] = p
    ELSE 0

\* lines 88-139: the result analyze builds from what the seven evaluations of
\* lines 67-85 return
AnalyzeResult(p, s, c, k, e, b, d) ==
    LET raw_score == WeightedScore(p[1], s[1], c[1], k[1], e[1], b[1], d[1])
        capped == _apply_score_caps(raw_score, p[1], e[3], b[1], k[1], s[3])
        sw == _generate_strengths_weaknesses(p[1], s[1], c[1], k[1], e[1], b[1], d[1],
                                             capped[2])
    IN  [score |-> capped[1],
         raw_score |-> raw_score,
         cap_applied |-> capped[2],
         component_scores |->
            [parsability |-> p[1],
             section_detection |-> s[1],
             contact_information |-> c[1],
             keyword_matching |-> k[1],
             experience_projects |-> e[1],
             bullet_structure |-> b[1],
             dates_chronology |-> d[1]],
         issues |-> p[2] \o s[2] \o c[2] \o k[2] \o e[2] \o b[2] \o d[2],
         strengths |-> sw[1],
         weaknesses |-> sw[2],
         detected_sections |-> s[3]]

(***************************************************************************)
(* analyze as one function of its argument: the statements of lines 55-139 *)
(* run in order by a single thread                                         *)
(***************************************************************************)
analyze(text) ==
    IF TooShort(text) THEN ShortResult
    ELSE AnalyzeResult(_evaluate_parsability(text),
                       _evaluate_sections(Lower(text)),
                       _evaluate_contact_info(text),
                       _evaluate_keywords(Lower(text), text),
                       _evaluate_experience_projects(Lower(text),
                                                     _evaluate_sections(Lower(text))[3]),
                       _evaluate_bullet_points(text),
                       _evaluate_dates(text))

(***************************************************************************)
(* Two threads calling analyze on one shared instance: the statements of   *)
(* the two calls interleave, each thread has its own frame                 *)
(***************************************************************************)
\* the texts the two threads pass: a short one, the text with two stuffed
\* words, the text with years and no experience section, the text with a
\* single project, and a header with an experience part
ConcTexts ==
    {"John Doe",
     "scalable robust scalable robust scalable robust scalable robust scalable robust scalable robust scalable robust scalable robust scalable robust scalable robust scalable robust",
     "Ann Lee\nSpent 3 years and 6 months building things at home for fun\nportfolio of 2 projects online",
     "Ann Lee\nEXPERIENCE\nShop assistant for the summer season at a store\nportfolio of games online",
     TextOf({1, 4})}

\* thread c moves to position p with the locals l added to its frame
Advance(c, p, l) ==
    frames' = [frames EXCEPT ![c].pc = p, ![c].locals = frames[c].locals @@ l]

\* thread c invokes analyze(t)
ConcCall(c, t) ==
    /\ frames[c].pc = "idle"
    /\ frames' = [frames EXCEPT ![c] = [pc |-> "check", resume_text |-> t,
                                        locals |-> EmptyDict, result |-> EmptyDict]]
    /\ UNCHANGED <<tables, single, evaluation>>

\* lines 55-64 with text_lower kept in an attribute of the shared instance:
\* the assignment replaces the value every call in progress reads
ConcCheckInput_SharedTextLower(c) ==
    /\ frames[c].pc = "check"
    /\ IF TooShort(frames[c].resume_text)
       THEN frames' = [frames EXCEPT ![c].pc = "done", ![c].result = ShortResult]
       ELSE frames' =
               [d \in Callers |->
                   IF d = c
                   THEN [frames[d] EXCEPT
                            !.pc = "parsability",
                            !.locals = [text_lower |-> Lower(frames[c].resume_text)]]
                   ELSE IF "text_lower" \in DOMAIN frames[d].locals
                   THEN [frames[d] EXCEPT
                            !.locals = [text_lower |-> Lower(frames[c].resume_text)]
                                          @@ frames[d].locals]
                   ELSE frames[d]]
    /\ UNCHANGED <<tables, single, evaluation>>

\* lines 55-64
ConcCheckInput(c) ==
    /\ frames[c].pc = "check"
    /\ IF TooShort(frames[c].resume_text)
       THEN frames' = [frames EXCEPT ![c].pc = "done", ![c].result = ShortResult]
       ELSE Advance(c, "parsability", [text_lower |-> Lower(frames[c].resume_text)])
    /\ UNCHANGED <<tables, single, evaluation>>

\* line 67
ConcEvalParsability(c) ==
    /\ frames[c].pc = "parsability"
    /\ IF ParsabilityRaises(frames[c].resume_text)
       THEN Advance(c, "error", EmptyDict)
       ELSE LET r == _evaluate_parsability(frames[c].resume_text)
            IN  Advance(c, "sections", [parsability_score |-> r[1],
                                        parsability_issues |-> r[2]])
    /\ UNCHANGED <<tables, single, evaluation>>

\* line 70
ConcEvalSections(c) ==
    /\ frames[c].pc = "sections"
    /\ LET r == _evaluate_sections(frames[c].locals.text_lower)
       IN  Advance(c, "contact", [section_score |-> r[1], section_issues |-> r[2],
                                  detected_sections |-> r[3]])
    /\ UNCHANGED <<tables, single, evaluation>>

\* line 73
ConcEvalContact(c) ==
    /\ frames[c].pc = "contact"
    /\ LET r == _evaluate_contact_info(frames[c].resume_text)
       IN  Advance(c, "keywords", [contact_score |-> r[1], contact_issues |-> r[2]])
    /\ UNCHANGED <<tables, single, evaluation>>

\* line 76
ConcEvalKeywords(c) ==
    /\ frames[c].pc = "keywords"
    /\ LET r == _evaluate_keywords(frames[c].locals.text_lower, frames[c].resume_text)
       IN  Advance(c, "experience_projects", [keyword_score |-> r[1],
                                              keyword_issues |-> r[2]])
    /\ UNCHANGED <<tables, single, evaluation>>

\* lines 79-81
ConcEvalExperienceProjects(c) ==
    /\ frames[c].pc = "experience_projects"
    /\ LET r == _evaluate_experience_projects(frames[c].locals.text_lower,
                                              frames[c].locals.detected_sections)
       IN  Advance(c, "bullets", [exp_project_score |-> r[1], exp_project_issues |-> r[2],
                                  is_fresher |-> r[3]])
    /\ UNCHANGED <<tables, single, evaluation>>

\* line 84
ConcEvalBullets(c) ==
    /\ frames[c].pc = "bullets"
    /\ LET r == _evaluate_bullet_points(frames[c].resume_text)
       IN  Advance(c, "dates", [bullet_score |-> r[1], bullet_issues |-> r[2]])
    /\ UNCHANGED <<tables, single, evaluation>>

\* line 87
ConcEvalDates(c) ==
    /\ frames[c].pc = "dates"
    /\ IF DatesRaises(frames[c].resume_text)
       THEN Advance(c, "error", EmptyDict)
       ELSE LET r == _evaluate_dates(frames[c].resume_text)
            IN  Advance(c, "raw_score", [date_score |-> r[1], date_issues |-> r[2]])
    /\ UNCHANGED <<tables, single, evaluation>>

\* lines 90-98
ConcAggregate(c) ==
    /\ frames[c].pc = "raw_score"
    /\ LET l == frames[c].locals
       IN  Advance(c, "caps",
                   [raw_score |-> WeightedScore(l.parsability_score, l.section_score,
                                      l.contact_score, l.keyword_score,
                                      l.exp_project_score, l.bullet_score, l.date_score)])
    /\ UNCHANGED <<tables, single, evaluation>>

\* lines 101-104
ConcApplyCaps(c) ==
    /\ frames[c].pc = "caps"
    /\ LET l == frames[c].locals
           r == _apply_score_caps(l.raw_score, l.parsability_score, l.is_fresher,
                                  l.bullet_score, l.keyword_score, l.detected_sections)
       IN  Advance(c, "issues", [final_score |-> r[1], cap_reason |-> r[2]])
    /\ UNCHANGED <<tables, single, evaluation>>

\* lines 107-114
ConcCollectIssues(c) ==
    /\ frames[c].pc = "issues"
    /\ LET l == frames[c].locals
       IN  Advance(c, "strengths_weaknesses",
                   [all_issues |-> l.parsability_issues \o l.section_issues
                                     \o l.contact_issues \o l.keyword_issues
                                     \o l.exp_project_issues \o l.bullet_issues
                                     \o l.date_issues])
    /\ UNCHANGED <<tables, single, evaluation>>

\* lines 117-120
ConcGenerateStrengthsWeaknesses(c) ==
    /\ frames[c].pc = "strengths_weaknesses"
    /\ LET l == frames[c].locals
           r == _generate_strengths_weaknesses(l.parsability_score, l.section_score,
                    l.contact_score, l.keyword_score, l.exp_project_score,
                    l.bullet_score, l.date_score, l.cap_reason)
       IN  Advance(c, "return", [strengths |-> r[1], weaknesses |-> r[2]])
    /\ UNCHANGED <<tables, single, evaluation>>

\* lines 122-139
ConcReturn(c) ==
    /\ frames[c].pc = "return"
    /\ LET l == frames[c].locals
       IN  frames' =
              [frames EXCEPT
                 ![c].pc = "done",
                 ![c].result =
                    [score |-> l.final_score,
                     raw_score |-> l.raw_score,
                     cap_applied |-> l.cap_reason,
                     component_scores |->
                        [parsability |-> l.parsability_score,
                         section_detection |-> l.section_score,
                         contact_information |-> l.contact_score,
                         keyword_matching |-> l.keyword_score,
                         experience_projects |-> l.exp_project_score,
                         bullet_structure |-> l.bullet_score,
                         dates_chronology |-> l.date_score],
                     issues |-> l.all_issues,
                     strengths |-> l.strengths,
                     weaknesses |-> l.weaknesses,
                     detected_sections |-> l.detected_sections]]
    /\ UNCHANGED <<tables, single, evaluation>>

ConcNext ==
    \E c \in Callers :
        \/ \E t \in ConcTexts : ConcCall(c, t)
        \/ ConcCheckInput(c)
        \/ ConcEvalParsability(c)
        \/ ConcEvalSections(c)
        \/ ConcEvalContact(c)
        \/ ConcEvalKeywords(c)
        \/ ConcEvalExperienceProjects(c)
        \/ ConcEvalBullets(c)
        \/ ConcEvalDates(c)
        \/ ConcAggregate(c)
        \/ ConcApplyCaps(c)
        \/ ConcCollectIssues(c)
        \/ ConcGenerateStrengthsWeaknesses(c)
        \/ ConcReturn(c)

ConcSpec == Init /\ [][ConcNext]_vars


(***************************************************************************)
(* The two LLM analyzers ResumeEvaluator calls next to the rule-based one  *)
(* (ai_semantic_analyzer.py, rubric_analyzer.py).  The reply of the LLM    *)
(* service is an input: the call raises, or returns a text that is not     *)
(* JSON, or returns a JSON object.  A dictionary is a function on its      *)
(* keys; a score, which the code never checks to be a number, carries its  *)
(* Python type.  The check and cross glyphs of the two shortlist           *)
(* sentences are not ASCII and are left out of them.                       *)
(***************************************************************************)
\* d.get(key, default)
GetOr(d, key, default) == IF key \in DOMAIN d THEN d[key] ELSE default

\* a JSON number and the JSON null, as Python values
IntValue(n) == [type |-> "int", value |-> n]

NoneValue == [type |-> "NoneType", value |-> 0]

\* the error text of an exception, as str(e) gives it
ErrorText == "service error"

\* AISemanticAnalyzer.analyze, lines 49-55
AiUnavailable ==
    [score |-> IntValue(0),
     error |-> "AI analysis unavailable - missing API key or google-generativeai package",
     strengths |-> <<>>,
     weaknesses |-> <<"AI analysis could not be performed">>]

\* lines 57-62
AiTooShort ==
    [score |-> IntValue(0),
     strengths |-> <<>>,
     weaknesses |-> <<"Resume text is too short for meaningful AI analysis">>]

\* lines 84-91
AiJsonError ==
    [score |-> IntValue(0),
     error |-> "AI response parsing failed: " \o ErrorText,
     strengths |-> <<>>,
     weaknesses |-> <<"AI analysis encountered a JSON parsing error">>]

\* lines 92-98
AiFailed ==
    [score |-> IntValue(0),
     error |-> "AI analysis failed: " \o ErrorText,
     strengths |-> <<>>,
     weaknesses |-> <<"AI analysis encountered an error">>]

\* _determine_role_level raises TypeError: the score is compared with 75
TransformStrictRaises(strict_result) ==
    GetOr(strict_result, "ai_ats_score", IntValue(0)).type # "int"

\* _determine_role_level
_determine_role_level(score, raw_scores) ==
    LET seniority_fit == GetOr(raw_scores, "seniority_fit", 0)
    IN  IF score >= 75 /\ seniority_fit >= 70 THEN "Senior"
        ELSE IF score >= 55 /\ seniority_fit >= 50 THEN "Mid-Level"
        ELSE "Junior"

\* _transform_strict_output, for a reply it does not raise on; of the keys of
\* the dictionary it returns, the ones ResumeEvaluator reads
_transform_strict_output(strict_result) ==
    LET score            == GetOr(strict_result, "ai_ats_score", IntValue(0))
        analysis_summary == GetOr(strict_result, "analysis_summary", EmptyDict)
        strengths        == GetOr(analysis_summary, "strengths", <<>>)
        weaknesses       == GetOr(analysis_summary, "weaknesses", <<>>)
        teaching_summary == GetOr(strict_result, "teaching_summary", "")
        raw_scores       == GetOr(strict_result, "raw_scores", EmptyDict)
    IN  [score |-> score,
         strengths |-> strengths,
         weaknesses |-> IF teaching_summary # ""
                        THEN <<"Learning Focus: " \o teaching_summary>> \o weaknesses
                        ELSE weaknesses,
         semantic_insights |-> teaching_summary,
         experience_depth |-> "Evidence & Depth Score: "
                                 \o ToString(GetOr(raw_scores, "evidence_depth", 0)) \o "/100",
         impact_assessment |-> "Metrics & Impact Score: "
                                 \o ToString(GetOr(raw_scores, "metrics_impact", 0)) \o "/100",
         role_level |-> _determine_role_level(score.value, raw_scores)]

\* what generate_content and json.loads come to: an exception, a text that
\* is not JSON, or an object
AiReplies ==
    {[kind |-> "raises"],
     [kind |-> "not_json"],
     [kind |-> "json",
      body |-> [ai_ats_score |-> IntValue(72),
                analysis_summary |-> [strengths |-> <<"Clear project descriptions">>,
                                      weaknesses |-> <<"Few measurable results">>],
                teaching_summary |-> "Quantify the impact of each project",
                raw_scores |-> [evidence_depth |-> 60, metrics_impact |-> 40,
                                seniority_fit |-> 55]]],
     [kind |-> "json",
      body |-> [ai_ats_score |-> IntValue(100),
                raw_scores |-> [seniority_fit |-> 80]]],
     [kind |-> "json", body |-> [ai_ats_score |-> NoneValue]]}

\* AISemanticAnalyzer.analyze on an instance whose flag self.available is
\* available, the LLM service answering with reply
AiAnalyze(available, text, reply) ==
    IF ~available THEN AiUnavailable
    ELSE IF TooShort(text) THEN AiTooShort
    ELSE IF reply.kind = "not_json" THEN AiJsonError
    ELSE IF reply.kind = "raises" THEN AiFailed
    ELSE IF TransformStrictRaises(reply.body) THEN AiFailed
    ELSE _transform_strict_output(reply.body)

\* EvidenceBasedRubricAnalyzer.analyze, lines 65-71
RubricUnavailable ==
    [score |-> IntValue(0),
     error |-> "Rubric analysis unavailable - missing API key or google-generativeai package",
     strengths |-> <<>>,
     weaknesses |-> <<"Rubric analysis could not be performed">>]

\* lines 73-78
RubricTooShort ==
    [score |-> IntValue(0),
     strengths |-> <<>>,
     weaknesses |-> <<"Resume text is too short for meaningful rubric analysis">>]

\* lines 124-135
RubricJsonError ==
    [score |-> IntValue(0),
     error |-> "Rubric response parsing failed: " \o ErrorText,
     strengths |-> <<>>,
     weaknesses |-> <<"Rubric analysis encountered a JSON parsing error">>]

\* lines 136-147
RubricFailed ==
    [score |-> IntValue(0),
     error |-> "Rubric analysis failed: " \o ErrorText,
     strengths |-> <<>>,
     weaknesses |-> <<"Rubric analysis encountered an error">>]

\* _transform_rubric_output: the score is passed on as the reply has it
_transform_rubric_output(rubric_result) ==
    LET score          == GetOr(rubric_result, "rubric_ats_score", IntValue(0))
        shortlist      == GetOr(rubric_result, "shortlist_decision", "No")
        rubric_summary == GetOr(rubric_result, "rubric_summary", EmptyDict)
        trusted_signals == GetOr(rubric_summary, "trusted_signals", <<>>)
        red_flags      == GetOr(rubric_summary, "red_flags", <<>>)
    IN  [score |-> score,
         shortlist_decision |-> shortlist,
         strengths |-> IF shortlist = "Yes"
                       THEN <<"Shortlist Decision: Would recommend for interview">>
                               \o trusted_signals
                       ELSE trusted_signals,
         weaknesses |-> IF shortlist = "No"
                        THEN <<"Shortlist Decision: Would NOT recommend for interview">>
                                \o red_flags
                        ELSE red_flags,
         learning_takeaways |-> GetOr(rubric_result, "learning_takeaways", <<>>),
         rubric_issues |-> GetOr(rubric_result, "rubric_issues", <<>>),
         trusted_signals |-> trusted_signals,
         red_flags |-> red_flags]

\* what generate_content and json.loads come to, as for the AI analyzer
RubricReplies ==
    {[kind |-> "raises"],
     [kind |-> "not_json"],
     [kind |-> "json",
      body |-> [rubric_ats_score |-> IntValue(64),
                shortlist_decision |-> "Yes",
                rubric_summary |-> [trusted_signals |-> <<"Shipped a working project">>,
                                    red_flags |-> <<"Few measurable results">>],
                learning_takeaways |-> <<"Show proof of ownership">>,
                rubric_issues |->
                   << [issue |-> "Skill claims lack proof",
                       how_to_fix |-> "Link each skill to a project that used it",
                       why_it_fails_human_review |-> "Unverified claims are discounted",
                       example_rewrite |-> "Built a report tool with Python"],
                      [issue |-> "Vague ownership in bullet points",
                       how_to_fix |-> "Say what you did yourself",
                       why_it_fails_human_review |-> "Team results hide your part"],
                      [issue |-> "Project difficulty is unclear",
                       how_to_fix |-> "Name the hard part of the project",
                       why_it_fails_human_review |-> "Tutorial work is suspected"],
                      [issue |-> "Timeline looks implausible",
                       how_to_fix |-> "Give start and end dates",
                       why_it_fails_human_review |-> "Gaps raise doubts"] >>]],
     [kind |-> "json", body |-> [rubric_ats_score |-> IntValue(35)]],
     [kind |-> "json", body |-> [rubric_ats_score |-> NoneValue]]}

\* EvidenceBasedRubricAnalyzer.analyze on an instance whose flag
\* self.available is available, the LLM service answering with reply
RubricAnalyze(available, text, reply) ==
    IF ~available THEN RubricUnavailable
    ELSE IF TooShort(text) THEN RubricTooShort
    ELSE IF reply.kind = "not_json" THEN RubricJsonError
    ELSE IF reply.kind = "raises" THEN RubricFailed
    ELSE _transform_rubric_output(reply.body)

(***************************************************************************)
(* ResumeEvaluator (resume_evaluator.py).  The bullet glyph of one fix and *)
(* the arrows of one default, which are not ASCII, are written - and ->.   *)
(***************************************************************************)
\* round(num / den) of Python 3 for den > 0: to the nearest integer, a half to
\* the even one
RoundHalfEven(num, den) ==
    LET q == num \div den
        r == num % den
    IN  IF 2 * r < den THEN q
        ELSE IF 2 * r > den THEN q + 1
        ELSE IF q % 2 = 0 THEN q ELSE q + 1

\* list(dict.fromkeys(seq)): the first occurrence of each element, in order
Dedupe(seq) ==
    SelectSeqIdx(seq, {k \in DOMAIN seq : \A j \in 1..(k - 1) : seq[j] # seq[k]})

\* seq[:n]
FirstN(seq, n) == SubSeq(seq, 1, Min2(n, Len(seq)))

\* any(keyword in s for keyword in kws)
AnyKeyword(s, kws) == \E kw \in kws : Contains(s, kw)

\* the division of line 50 by 2 in place of 3
FinalScore_MeanOfTwo(standard_score, ai_score, rubric_score) ==
    RoundHalfEven(standard_score + ai_score + rubric_score, 2)

\* line 50
FinalScore(standard_score, ai_score, rubric_score) ==
    RoundHalfEven(standard_score + ai_score + rubric_score, 3)

\* line 50 raises TypeError: a score that is not a number is added
FinalScoreRaises(ai_score, rubric_score) ==
    ai_score.type # "int" \/ rubric_score.type # "int"

_generate_analysis_summary(standard_result, ai_result, rubric_result) ==
    LET insight    == GetOr(ai_result, "semantic_insights", "")
        strengths  == GetOr(standard_result, "strengths", <<>>)
                         \o GetOr(ai_result, "strengths", <<>>)
                         \o GetOr(rubric_result, "strengths", <<>>)
                         \o (IF insight # "" THEN <<"AI Insight: " \o insight>> ELSE <<>>)
        weaknesses == GetOr(standard_result, "weaknesses", <<>>)
                         \o GetOr(ai_result, "weaknesses", <<>>)
                         \o GetOr(rubric_result, "weaknesses", <<>>)
    IN  [strengths |-> FirstN(Dedupe(strengths), 10),
         weaknesses |-> FirstN(Dedupe(weaknesses), 10)]

_get_keyword_fix(issue) ==
    IF Contains(Lower(issue), "action verb")
    THEN "Start bullet points with strong action verbs like: Developed, Implemented, Led, Designed, Optimized, Achieved, Managed"
    ELSE IF Contains(Lower(issue), "quantifiable")
    THEN "Add specific metrics: percentages, dollar amounts, user counts, or time savings (e.g., 'Improved performance by 40%')"
    ELSE IF Contains(Lower(issue), "keyword") \/ Contains(Lower(issue), "skill")
    THEN "Add relevant technical skills and industry keywords that match your target role"
    ELSE "Enhance keyword density with role-specific terminology"

_get_content_fix(issue) ==
    IF Contains(Lower(issue), "bullet")
    THEN "Use bullet points (-, -, or *) to list responsibilities and achievements for better scannability"
    ELSE IF Contains(Lower(issue), "metric") \/ Contains(Lower(issue), "number")
    THEN "Quantify achievements with specific numbers, percentages, or measurable outcomes"
    ELSE "Rewrite content to be more concise and impact-focused"

_get_experience_fix(issue) ==
    IF Contains(Lower(issue), "date")
    THEN "Include dates in MM/YYYY format for all positions and education (e.g., '01/2020 - 12/2023')"
    ELSE IF Contains(Lower(issue), "section") /\ Contains(Lower(issue), "experience")
    THEN "Add a dedicated Work Experience section with job titles, companies, dates, and key achievements"
    ELSE "Provide more detailed information about your professional experience"

_get_formatting_fix(issue) ==
    IF Contains(Lower(issue), "header")
    THEN "Use clear section headers in UPPERCASE or Title Case (e.g., 'WORK EXPERIENCE', 'EDUCATION')"
    ELSE IF Contains(Lower(issue), "spacing")
    THEN "Use consistent spacing: one blank line between sections, no excessive empty lines"
    ELSE IF Contains(Lower(issue), "short")
    THEN "Expand resume content to at least one full page with detailed descriptions of your experience"
    ELSE "Review formatting for consistency and professional appearance"

_get_ats_fix(issue) ==
    IF Contains(Lower(issue), "contact") \/ Contains(Lower(issue), "email")
    THEN "Add complete contact information at the top: Full Name, Email, Phone, LinkedIn URL"
    ELSE IF Contains(Lower(issue), "special character") \/ Contains(Lower(issue), "table")
    THEN "Avoid tables, text boxes, and excessive special characters - use simple text formatting"
    ELSE IF Contains(Lower(issue), "linkedin")
    THEN "Add your LinkedIn profile URL in the format: linkedin.com/in/yourprofile"
    ELSE "Simplify formatting to ensure ATS systems can parse your resume correctly"

\* the keys of the dictionary of improvements, in the order of lines 120-126
Categories ==
    <<"keyword_and_skills", "content_and_bullets", "projects_and_experience",
      "structure_and_formatting", "ats_compatibility">>

\* the dictionary of lines 120-126
NoImprovements == [c \in {Categories[k] : k \in DOMAIN Categories} |-> <<>>]

_categorize_and_format_issue(issue) ==
    LET issue_lower == Lower(issue)
    IN  IF AnyKeyword(issue_lower, {"keyword", "skill", "action verb", "quantifiable"})
        THEN [category |-> "keyword_and_skills",
              issue |-> issue,
              recommended_fix |-> _get_keyword_fix(issue),
              reason |-> "Improves ATS keyword matching and demonstrates relevant expertise"]
        ELSE IF AnyKeyword(issue_lower, {"bullet", "achievement", "metric", "number"})
        THEN [category |-> "content_and_bullets",
              issue |-> issue,
              recommended_fix |-> _get_content_fix(issue),
              reason |-> "Makes accomplishments more impactful and measurable"]
        ELSE IF AnyKeyword(issue_lower, {"experience", "project", "date", "role"})
        THEN [category |-> "projects_and_experience",
              issue |-> issue,
              recommended_fix |-> _get_experience_fix(issue),
              reason |-> "Provides better context for your professional background"]
        ELSE IF AnyKeyword(issue_lower, {"format", "header", "spacing", "line", "structure"})
        THEN [category |-> "structure_and_formatting",
              issue |-> issue,
              recommended_fix |-> _get_formatting_fix(issue),
              reason |-> "Improves readability and professional appearance"]
        ELSE IF AnyKeyword(issue_lower, {"ats", "special character", "table", "graphic", "contact"})
        THEN [category |-> "ats_compatibility",
              issue |-> issue,
              recommended_fix |-> _get_ats_fix(issue),
              reason |-> "Ensures ATS systems can properly parse your resume"]
        ELSE [category |-> "ats_compatibility",
              issue |-> issue,
              recommended_fix |-> "Review and address this issue to improve ATS compatibility",
              reason |-> "Helps ATS systems better understand your qualifications"]

\* del improvement['category']
WithoutCategory(improvement) ==
    [issue |-> improvement.issue,
     recommended_fix |-> improvement.recommended_fix,
     reason |-> improvement.reason]

\* the loop of lines 134-139: each standard issue appended to its category
StandardImprovements(standard_issues) ==
    LET formatted == [k \in DOMAIN standard_issues |->
                         _categorize_and_format_issue(standard_issues[k])]
    IN  [c \in DOMAIN NoImprovements |->
            LET mine == SelectSeqIdx(formatted,
                                     {k \in DOMAIN formatted : formatted[k].category = c})
            IN  [k \in DOMAIN mine |-> WithoutCategory(mine[k])]]

\* a score == 0 of Python
IsZero(score) == score.type = "int" /\ score.value = 0

_generate_ai_improvements(ai_result) ==
    IF GetOr(ai_result, "error", "") # "" \/ IsZero(GetOr(ai_result, "score", IntValue(0)))
    THEN NoImprovements
    ELSE
    LET experience_depth  == GetOr(ai_result, "experience_depth", "")
        impact_assessment == GetOr(ai_result, "impact_assessment", "")
        role_level        == Lower(GetOr(ai_result, "role_level", ""))
    IN  [c \in DOMAIN NoImprovements |->
            IF c = "projects_and_experience" /\ experience_depth # ""
            THEN << [issue |-> "Experience depth could be improved",
                     recommended_fix |-> experience_depth,
                     reason |-> "Demonstrates substantive experience rather than surface-level claims"] >>
            ELSE IF c = "content_and_bullets" /\ impact_assessment # ""
            THEN << [issue |-> "Impact-driven content needs enhancement",
                     recommended_fix |-> impact_assessment,
                     reason |-> "Highlights business value and measurable outcomes"] >>
            ELSE IF c = "keyword_and_skills" /\ role_level \in {"junior", "mid-level", "senior"}
            THEN << [issue |-> "Resume appears to target " \o role_level \o " positions",
                     recommended_fix |-> "Ensure your skills and experience align with "
                                            \o role_level
                                            \o " role expectations. Add relevant certifications or advanced skills if targeting higher levels.",
                     reason |-> "Aligns resume presentation with career level and target roles"] >>
            ELSE <<>>]

\* the category the chain of lines 344-367 appends a rubric issue to
RubricCategory(issue_lower) ==
    IF AnyKeyword(issue_lower, {"skill", "keyword", "proof", "claim"})
    THEN "keyword_and_skills"
    ELSE IF AnyKeyword(issue_lower, {"bullet", "verb", "ownership", "depth"})
    THEN "content_and_bullets"
    ELSE IF AnyKeyword(issue_lower, {"project", "experience", "difficulty"})
    THEN "projects_and_experience"
    ELSE "ats_compatibility"

\* the record lines 332-367 build and append for one rubric issue
RubricImprovement(issue_obj) ==
    LET how_to_fix      == GetOr(issue_obj, "how_to_fix", "")
        example_rewrite == GetOr(issue_obj, "example_rewrite", "")
    IN  [issue |-> GetOr(issue_obj, "issue", ""),
         recommended_fix |-> IF example_rewrite # ""
                             THEN how_to_fix \o " | Example: " \o example_rewrite
                             ELSE how_to_fix,
         reason |-> "Human Reviewer: " \o GetOr(issue_obj, "why_it_fails_human_review", "")]

_generate_rubric_improvements(rubric_result) ==
    IF GetOr(rubric_result, "error", "") # ""
          \/ IsZero(GetOr(rubric_result, "score", IntValue(0)))
    THEN NoImprovements
    ELSE
    LET rubric_issues == FirstN(GetOr(rubric_result, "rubric_issues", <<>>), 5)
    IN  [c \in DOMAIN NoImprovements |->
            LET mine == SelectSeqIdx(rubric_issues,
                           {k \in DOMAIN rubric_issues :
                               RubricCategory(Lower(GetOr(rubric_issues[k], "issue", ""))) = c})
            IN  [k \in DOMAIN mine |-> RubricImprovement(mine[k])]]

\* the dictionary defaults of lines 377-403
DefaultImprovements ==
    [keyword_and_skills |->
        [issue |-> "Keyword optimization opportunity",
         recommended_fix |-> "Review job descriptions for target roles and incorporate relevant technical keywords and skills",
         reason |-> "Increases match rate with ATS keyword filters"],
     content_and_bullets |->
        [issue |-> "Content could be more impactful",
         recommended_fix |-> "Use the STAR method (Situation, Task, Action, Result) to describe achievements",
         reason |-> "Makes accomplishments more compelling and memorable"],
     projects_and_experience |->
        [issue |-> "Experience presentation could be enhanced",
         recommended_fix |-> "Highlight projects that demonstrate relevant skills and real-world problem-solving",
         reason |-> "Shows practical application of skills and technical depth"],
     structure_and_formatting |->
        [issue |-> "Structure could be optimized",
         recommended_fix |-> "Use a clear hierarchy: Contact -> Summary -> Skills -> Experience -> Education -> Projects",
         reason |-> "Follows standard resume format expected by recruiters and ATS"],
     ats_compatibility |->
        [issue |-> "ATS compatibility check",
         recommended_fix |-> "Use standard section headers, avoid images/graphics, and save as .docx or .pdf",
         reason |-> "Ensures maximum compatibility with all ATS systems"]]

_ensure_minimum_improvements(improvements) ==
    [c \in DOMAIN improvements |->
        IF improvements[c] = <<>> THEN <<DefaultImprovements[c]>> ELSE improvements[c]]

_generate_improvements(standard_result, ai_result, rubric_result) ==
    LET standard == StandardImprovements(GetOr(standard_result, "issues", <<>>))
        ai       == _generate_ai_improvements(ai_result)
        rubric   == _generate_rubric_improvements(rubric_result)
    IN  _ensure_minimum_improvements(
           [c \in DOMAIN NoImprovements |-> standard[c] \o ai[c] \o rubric[c]])

(***************************************************************************)
(* evaluate, one action per statement of its body                          *)
(***************************************************************************)
\* the texts passed to evaluate: a short one, the projects part alone, the
\* header with skills and experience, the first six parts together, a text
\* of plain lines with years, and a text with weak bullets
EvalTexts ==
    {"John Doe",
     TextOf({6}),
     TextOf({1, 3, 4}),
     TextOf({1, 2, 3, 4, 5, 6}),
     "Ann Lee\nSchool 2015\nCollege 2019\nJoined the town store as a clerk in 2021",
     "Ann Lee of the town of Austin\n- went to the store\n- sat at the desk\n- Led sql work"}

\* StandardATSAnalyzer.analyze raises
AnalyzeRaises(text) == ~TooShort(text) /\ (ParsabilityRaises(text) \/ DatesRaises(text))

\* ResumeEvaluator(): the three analyzers are built; whether an LLM analyzer
\* is available is decided by its API key and the import of its package
EvConstruct(ai, rubric) ==
    /\ evaluation.pc = "new"
    /\ evaluation' = [evaluation EXCEPT !.pc = "idle",
                                        !.ai_available = ai,
                                        !.rubric_available = rubric]
    /\ UNCHANGED <<tables, single, frames>>

\* evaluate(t) is called on the evaluator, for the first time or after an
\* earlier call has returned or raised
EvCall(t) ==
    /\ evaluation.pc \in {"idle", "done", "raised"}
    /\ evaluation' = [evaluation EXCEPT !.pc = "standard",
                                        !.resume_text = t,
                                        !.locals = EmptyDict,
                                        !.result = EmptyDict]
    /\ UNCHANGED <<tables, single, frames>>

\* line 40
EvStandard ==
    /\ evaluation.pc = "standard"
    /\ IF AnalyzeRaises(evaluation.resume_text)
       THEN evaluation' = [evaluation EXCEPT !.pc = "raised", !.locals = EmptyDict]
       ELSE evaluation' =
               [evaluation EXCEPT !.pc = "ai",
                                  !.locals = [standard_result |-> analyze(evaluation.resume_text)]]
    /\ UNCHANGED <<tables, single, frames>>

\* line 41
EvAi(reply) ==
    /\ evaluation.pc = "ai"
    /\ evaluation' =
          [evaluation EXCEPT !.pc = "rubric",
                             !.locals = @ @@ [ai_result |->
                                 AiAnalyze(evaluation.ai_available, evaluation.resume_text, reply)]]
    /\ UNCHANGED <<tables, single, frames>>

\* line 42
EvRubric(reply) ==
    /\ evaluation.pc = "rubric"
    /\ evaluation' =
          [evaluation EXCEPT !.pc = "scores",
                             !.locals = @ @@ [rubric_result |->
                                 RubricAnalyze(evaluation.rubric_available,
                                               evaluation.resume_text, reply)]]
    /\ UNCHANGED <<tables, single, frames>>

\* lines 45-47
EvScores ==
    /\ evaluation.pc = "scores"
    /\ evaluation' =
          [evaluation EXCEPT !.pc = "final",
                             !.locals = @ @@
                                [standard_score |-> GetOr(@.standard_result, "score", 0),
                                 ai_score |-> GetOr(@.ai_result, "score", IntValue(0)),
                                 rubric_score |-> GetOr(@.rubric_result, "score", IntValue(0))]]
    /\ UNCHANGED <<tables, single, frames>>

\* line 50
EvFinal ==
    /\ evaluation.pc = "final"
    /\ ~FinalScoreRaises(evaluation.locals.ai_score, evaluation.locals.rubric_score)
    /\ evaluation' =
          [evaluation EXCEPT !.pc = "summary",
                             !.locals = @ @@
                                [final_score |-> FinalScore(@.standard_score,
                                                            @.ai_score.value,
                                                            @.rubric_score.value)]]
    /\ UNCHANGED <<tables, single, frames>>

\* line 50 raises: the exception leaves evaluate, which has no handler
EvFinalRaises ==
    /\ evaluation.pc = "final"
    /\ FinalScoreRaises(evaluation.locals.ai_score, evaluation.locals.rubric_score)
    /\ evaluation' = [evaluation EXCEPT !.pc = "raised", !.locals = EmptyDict]
    /\ UNCHANGED <<tables, single, frames>>

\* lines 53-55
EvSummary ==
    /\ evaluation.pc = "summary"
    /\ evaluation' =
          [evaluation EXCEPT !.pc = "improvements",
                             !.locals = @ @@
                                [analysis_summary |->
                                    _generate_analysis_summary(@.standard_result, @.ai_result,
                                                               @.rubric_result)]]
    /\ UNCHANGED <<tables, single, frames>>

\* lines 58-60
EvImprovements ==
    /\ evaluation.pc = "improvements"
    /\ evaluation' =
          [evaluation EXCEPT !.pc = "return",
                             !.locals = @ @@
                                [improvements |->
                                    _generate_improvements(@.standard_result, @.ai_result,
                                                           @.rubric_result)]]
    /\ UNCHANGED <<tables, single, frames>>

\* lines 63-76
EvReturn ==
    /\ evaluation.pc = "return"
    /\ LET l == evaluation.locals
       IN  evaluation' =
              [evaluation EXCEPT
                  !.pc = "done",
                  !.result =
                     [standard_ats_score |-> l.standard_score,
                      ai_ats_score |-> l.ai_score,
                      rubric_ats_score |-> l.rubric_score,
                      final_ats_score |-> l.final_score,
                      shortlist_decision |-> GetOr(l.rubric_result, "shortlist_decision", "Unknown"),
                      analysis_summary |-> l.analysis_summary,
                      resume_improvements |-> l.improvements,
                      rubric_feedback |->
                         [trusted_signals |-> GetOr(l.rubric_result, "trusted_signals", <<>>),
                          red_flags |-> GetOr(l.rubric_result, "red_flags", <<>>),
                          learning_takeaways |-> GetOr(l.rubric_result, "learning_takeaways", <<>>)]]]
    /\ UNCHANGED <<tables, single, frames>>

EvalNext ==
    \/ \E ai \in BOOLEAN, rubric \in BOOLEAN : EvConstruct(ai, rubric)
    \/ \E t \in EvalTexts : EvCall(t)
    \/ EvStandard
    \/ \E reply \in AiReplies : EvAi(reply)
    \/ \E reply \in RubricReplies : EvRubric(reply)
    \/ EvScores
    \/ EvFinal
    \/ EvFinalRaises
    \/ EvSummary
    \/ EvImprovements
    \/ EvReturn

EvalSpec == Init /\ [][EvalNext]_vars

(***************************************************************************)
(* Properties of analyze                                                   *)
(***************************************************************************)
\* the input is empty or its trimmed length is below 50
ShortInput == Len(resume_text) = 0 \/ Len(Strip(resume_text)) < 50

Returned == pc = "done"

ReturnedValid == pc = "done" /\ ~ShortInput

SevenDimensions ==
    {"parsability", "section_detection", "contact_information", "keyword_matching",
     "experience_projects", "bullet_structure", "dates_chronology"}

SevenSections ==
    {"contact", "summary", "skills", "experience", "education", "projects", "certifications"}

\* the four cap conditions, read off the returned component scores
CapParsability == result.component_scores.parsability < 60
CapFresher     == locals.is_fresher /\ ~result.detected_sections.projects
CapBullets     == result.component_scores.bullet_structure < 60
CapKeywords    == result.component_scores.keyword_matching < 50

\* the lowest applicable cap and its reason, when some cap condition holds
LowestCap ==
    IF CapParsability THEN <<55, "Parsability issues">>
    ELSE IF CapFresher THEN <<60, "No projects (fresher)">>
    ELSE IF CapBullets THEN <<65, "Weak bullet points">>
    ELSE <<70, "Insufficient keywords">>

\* C1: an input that is empty or whose trimmed length is below 50 gets
\* score 0, the single issue 'too short or empty' and empty component_scores,
\* and the call never reaches a sub-evaluation (no local of analyze is bound)
C1_ShortInputZero ==
    ShortInput =>
        /\ pc \in {"idle", "check", "done"}
        /\ DOMAIN locals = {}
        /\ pc = "done" =>
              /\ result.score = 0
              /\ result.issues = <<"Resume text is too short or empty">>
              /\ DOMAIN result.component_scores = {}

C1_Witness == pc = "done" /\ ShortInput /\ Len(Strip(resume_text)) = 49

\* C2: on a valid input each of the seven component scores lies in [0,100]
C2_ComponentScoresInRange ==
    ReturnedValid =>
        \A d \in DOMAIN result.component_scores :
            result.component_scores[d] >= 0 /\ result.component_scores[d] <= 100

\* C3: on a valid input the final score and raw_score are integers in [0,100]
C3_ScoresInRange ==
    ReturnedValid => result.score \in 0..100 /\ result.raw_score \in 0..100

C3_Witness == ReturnedValid /\ result.raw_score >= 95

\* C4: on a valid input the final score is at most raw_score
C4_CapMonotone == ReturnedValid => result.score <= result.raw_score

C4_Witness == ReturnedValid /\ (CapParsability \/ CapKeywords) /\ result.raw_score < 55

\* C5: on a valid input on which none of the four cap conditions holds,
\* score equals raw_score and cap_applied is 'No cap applied'
C5_NoCapCondition ==
    (ReturnedValid /\ ~CapParsability /\ ~CapFresher /\ ~CapBullets /\ ~CapKeywords) =>
        result.score = result.raw_score /\ result.cap_applied = "No cap applied"

C5_Witness ==
    /\ ReturnedValid /\ ~CapParsability /\ ~CapFresher /\ ~CapBullets /\ ~CapKeywords
    /\ result.raw_score > 70

\* C6: when at least one cap condition holds, the final score is
\* min(raw_score, lowest applicable cap); cap_applied is the reason of that
\* lowest cap exactly when raw_score is strictly greater than it and is
\* 'No cap applied' otherwise
C6_LowestCapBinds ==
    (ReturnedValid /\ (CapParsability \/ CapFresher \/ CapBullets \/ CapKeywords)) =>
        /\ result.score = Min2(result.raw_score, LowestCap[1])
        /\ result.raw_score > LowestCap[1] => result.cap_applied = LowestCap[2]
        /\ result.raw_score <= LowestCap[1] => result.cap_applied = "No cap applied"

C6_Witness ==
    /\ ReturnedValid /\ CapParsability /\ CapKeywords
    /\ result.raw_score > 55

\* C7: a valid input classified as fresher with no projects section detected
\* has experience_projects = 40 and a final score of at most 60
C7_FresherNoProjects ==
    (ReturnedValid /\ locals.is_fresher /\ ~result.detected_sections.projects) =>
        /\ result.component_scores.experience_projects = 40
        /\ result.score <= 60

C7_Witness ==
    /\ ReturnedValid /\ locals.is_fresher /\ ~result.detected_sections.projects
    /\ result.raw_score > 60 /\ ~CapParsability

\* C8 as stated: for every string input, component_scores has exactly the
\* seven dimension keys
C8_AlwaysSevenComponents ==
    Returned => DOMAIN result.component_scores = SevenDimensions

\* C8 amended: for every input whose trimmed length is at least 50,
\* component_scores has exactly the seven dimension keys
C8_ValidSevenComponents ==
    ReturnedValid => DOMAIN result.component_scores = SevenDimensions

C8_Witness == ReturnedValid /\ Len(Strip(resume_text)) = 50

\* C9 as stated: on every call, short inputs included, the result carries
\* detected_sections with exactly the seven section names, each a boolean
C9_AlwaysDetectedSections ==
    Returned =>
        /\ "detected_sections" \in DOMAIN result
        /\ DOMAIN result.detected_sections = SevenSections
        /\ \A n \in SevenSections : result.detected_sections[n] \in BOOLEAN

\* C9 amended: on every call whose input has trimmed length at least 50, the
\* result carries detected_sections with exactly the seven section names,
\* each a boolean
C9_ValidDetectedSections ==
    ReturnedValid =>
        /\ "detected_sections" \in DOMAIN result
        /\ DOMAIN result.detected_sections = SevenSections
        /\ \A n \in SevenSections : result.detected_sections[n] \in BOOLEAN

C9_Witness ==
    /\ ReturnedValid
    /\ "detected_sections" \in DOMAIN result
    /\ \E n \in SevenSections : ~result.detected_sections[n]
    /\ \E n \in SevenSections : result.detected_sections[n]

\* C10: a call repeated with the same text returns the same result as the
\* earlier calls, and the three tables are as they were after construction
C10_Idempotent ==
    /\ essential_sections = InitEssentialSections
    /\ action_verbs = InitActionVerbs
    /\ technical_skills = InitTechnicalSkills
    /\ pc = "done" => \A k \in DOMAIN earlier : earlier[k] = result

C10_Witness ==
    /\ ReturnedValid /\ Len(earlier) >= 1
    /\ result.component_scores.keyword_matching >= 50


\* C11: under every interleaving of the statements of two analyze calls on one
\* shared instance, a call that returns has the result the same text gets
\* from a call run alone, the three tables stay as constructed, and a
\* statement run by one thread leaves the frame of the other thread as it was
C11_CallsIndependent ==
    /\ [](/\ essential_sections = InitEssentialSections
          /\ action_verbs = InitActionVerbs
          /\ technical_skills = InitTechnicalSkills
          /\ \A c \in Callers :
                frames[c].pc = "done" => frames[c].result = analyze(frames[c].resume_text))
    /\ [][\A c \in Callers :
             frames'[c].pc # frames[c].pc =>
                \A d \in Callers \ {c} : frames'[d] = frames[d]]_vars

\* both calls are in progress at once, on different valid texts, each about
\* to return
C11_Witness ==
    /\ frames[1].pc = "return" /\ frames[2].pc = "return"
    /\ frames[1].resume_text # frames[2].resume_text
    /\ frames[1].locals.text_lower # frames[2].locals.text_lower

\* C12: for every string input a call of analyze ends with a normal return:
\* no sub-evaluation raises (the divisors of the ratio tests of parsability
\* and dates are never 0), every statement run moves the call on towards its
\* return and none moves it back or aside, and the returned
\* dictionary carries score, issues, strengths, weaknesses and
\* component_scores, for the short inputs too
C12_AlwaysReturns ==
    /\ [](pc # "error")
    /\ [][pc \notin {"idle", "done"} /\ pc' # pc => Rank(pc') > Rank(pc)]_vars
    /\ [](pc = "done" =>
            {"score", "issues", "strengths", "weaknesses", "component_scores"}
                \subseteq DOMAIN result)

\* a valid text of one line and one token went through every ratio test
C12_Witness ==
    /\ ReturnedValid
    /\ Len(SplitLines(resume_text)) = 1
    /\ Len(Split(resume_text)) = 1
    /\ "dates_chronology" \in DOMAIN result.component_scores

\* C13: for every input of trimmed length at least 50 the score is at least 1
\* and component_scores is not empty, so a returned score of 0 occurs if and
\* only if the short-text early return was taken
C13_ZeroScoreMeansShort ==
    /\ ReturnedValid => result.score >= 1 /\ DOMAIN result.component_scores # {}
    /\ Returned => (result.score = 0 <=> ShortInput)
    \* the least value each sub-evaluation can return (0, 0, 0, -15, 40, 60, 60)
    \* still weighs to a positive score, below every cap
    /\ WeightedScore(0, 0, 0, -15, 40, 60, 60) \in 1..55

\* a valid text with the lowest component scores of the catalogue: nothing
\* detected, the stuffing penalty alone in the keyword score
C13_Witness ==
    /\ ReturnedValid
    /\ result.component_scores.keyword_matching < 0
    /\ result.component_scores.section_detection = 0
    /\ result.component_scores.contact_information = 0
    /\ result.score < 25

\* the issue lists of the seven sub-evaluations, in the order they are run
IssueGroups ==
    <<locals.parsability_issues, locals.section_issues, locals.contact_issues,
      locals.keyword_issues, locals.exp_project_issues, locals.bullet_issues,
      locals.date_issues>>

\* the sub-evaluations that produced the message m
Producers(m) ==
    {g \in DOMAIN IssueGroups : \E j \in DOMAIN IssueGroups[g] : IssueGroups[g][j] = m}

\* C14: in the returned issues list no issue of a later sub-evaluation
\* precedes an issue of an earlier one (order parsability, sections, contact,
\* keywords, experience/projects, bullets, dates), every issue a
\* sub-evaluation produced appears exactly once and nothing else appears
C14_IssuesGrouped ==
    ReturnedValid =>
        /\ \A i, j \in DOMAIN result.issues :
              i < j => \E a \in Producers(result.issues[i]) :
                          \E b \in Producers(result.issues[j]) : a <= b
        /\ \A g \in DOMAIN IssueGroups : \A k \in DOMAIN IssueGroups[g] :
              Cardinality({i \in DOMAIN result.issues :
                              result.issues[i] = IssueGroups[g][k]}) = 1
        /\ \A i \in DOMAIN result.issues : Producers(result.issues[i]) # {}

\* at least five sub-evaluations produced an issue, the first and the last
\* among them
C14_Witness ==
    /\ ReturnedValid
    /\ Cardinality({g \in DOMAIN IssueGroups : Len(IssueGroups[g]) > 0}) >= 5
    /\ Len(locals.parsability_issues) > 0
    /\ Len(locals.keyword_issues) > 0
    /\ Len(locals.date_issues) > 0

\* 100 times the weighted sum of the returned component scores
WeightedSum ==
    LET cs == result.component_scores
    IN  15 * cs.parsability + 20 * cs.section_detection + 10 * cs.contact_information
          + 25 * cs.keyword_matching + 15 * cs.experience_projects
          + 10 * cs.bullet_structure + 5 * cs.dates_chronology

\* C15: raw_score is the weighted sum of the component scores with weights
\* 15, 20, 10, 25, 15, 10 and 5 percent, truncated to an integer; it is
\* computed before _apply_score_caps runs and is returned as computed
\* whatever the cap does; the weights sum to 100 percent
C15_RawScoreWeighted ==
    /\ ReturnedValid =>
          /\ WeightedSum >= 0
          /\ result.raw_score = WeightedSum \div 100
          /\ result.raw_score = locals.raw_score
    /\ pc = "caps" => "raw_score" \in DOMAIN locals /\ "final_score" \notin DOMAIN locals
    /\ 15 + 20 + 10 + 25 + 15 + 10 + 5 = 100
    /\ WeightedScore(100, 100, 100, 100, 100, 100, 100) = 100

\* a cap was applied and the weighted sum had a fraction of a half or more
C15_Witness ==
    /\ ReturnedValid
    /\ result.score < result.raw_score
    /\ WeightedSum % 100 >= 50

\* what the keyword sub-evaluation counts in the text of the call
SkillsMatched == CountIn(Lower(resume_text), InitTechnicalSkills)

VerbsMatched == CountIn(Lower(resume_text), InitActionVerbs)

MetricKinds ==
    (IF SearchDigitsThen(resume_text, "%") THEN 1 ELSE 0)
      + (IF SearchCounted(Lower(resume_text),
                          {"users", "customers", "projects", "team", "members"})
         THEN 1 ELSE 0)
      + (IF SearchMoney(resume_text) THEN 1 ELSE 0)

\* the words longer than 4 characters that occur more than 10 times
StuffedSet ==
    LET words == Split(Lower(resume_text))
    IN  {words[k] : k \in {j \in DOMAIN words :
            Len(words[j]) > 4
            /\ Cardinality({i \in DOMAIN words : words[i] = words[j]}) > 10}}

\* the resume of the second scenario: 8 skills, 6 action verbs, 2 kinds of
\* metric, no stuffed word
ScenarioTwo ==
    /\ ReturnedValid
    /\ SkillsMatched = 8 /\ VerbsMatched = 6 /\ MetricKinds = 2
    /\ StuffedSet = {}

\* C16 as stated: a resume with 8 skills, 6 action verbs, 2 kinds of metric
\* and no stuffed word has a keyword_matching score of at least 90
C16_ScenarioKeywordsAtLeast90 ==
    ScenarioTwo => result.component_scores.keyword_matching >= 90

\* C16 amended: such a resume has a keyword_matching score of exactly 80
\* (30 for the skills, 20 for the verbs, 30 for the metrics)
C16_ScenarioKeywords80 ==
    ScenarioTwo => result.component_scores.keyword_matching = 80

C16_Witness == ScenarioTwo /\ result.component_scores.bullet_structure = 100

\* C17: the keyword score is min(100, skill tier + verb tier + metric tier -
\* penalty): skills >= 12 -> 40, >= 8 -> 30, >= 5 -> 20, >= 3 -> 10, else 0 with
\* an issue; verbs >= 8 -> 30, >= 5 -> 20, >= 3 -> 10, else 0 with an issue;
\* metric kinds >= 2 -> 30, 1 -> 15, 0 -> 0 with an issue; the penalty is 15
\* when some word longer than 4 characters occurs more than 10 times, once
\* however many such words there are, with one issue naming them
C17_KeywordTiers ==
    ReturnedValid =>
        LET sk == SkillsMatched
            vb == VerbsMatched
            mk == MetricKinds
            skill_tier  == IF sk >= 12 THEN 40 ELSE IF sk >= 8 THEN 30
                           ELSE IF sk >= 5 THEN 20 ELSE IF sk >= 3 THEN 10 ELSE 0
            verb_tier   == IF vb >= 8 THEN 30 ELSE IF vb >= 5 THEN 20
                           ELSE IF vb >= 3 THEN 10 ELSE 0
            metric_tier == IF mk >= 2 THEN 30 ELSE IF mk = 1 THEN 15 ELSE 0
            penalty     == IF StuffedSet # {} THEN 15 ELSE 0
            said(m)     == \E i \in DOMAIN locals.keyword_issues :
                              locals.keyword_issues[i] = m
            stuffing    == {i \in DOMAIN locals.keyword_issues :
                              StartsWith(locals.keyword_issues[i],
                                         "Possible keyword stuffing detected: ")}
        IN  /\ result.component_scores.keyword_matching
                  = Min2(100, skill_tier + verb_tier + metric_tier - penalty)
            /\ said("Very few relevant technical keywords found") <=> sk < 3
            /\ said("Insufficient action verbs in experience descriptions") <=> vb < 3
            /\ said("Missing quantifiable achievements (add metrics, percentages, numbers)")
                  <=> mk = 0
            /\ Cardinality(stuffing) = (IF StuffedSet # {} THEN 1 ELSE 0)

\* two words are stuffed
C17_Witness == ReturnedValid /\ Cardinality(StuffedSet) >= 2

\* the detected_sections arguments _evaluate_experience_projects can be given:
\* both keys bound either way, or no key bound
ExperienceFlags == [{"experience", "projects"} -> BOOLEAN] \cup {EmptyDict}

\* how many of the six experience keywords occur in the text of the call
ExpMentions ==
    CountIn(Lower(resume_text),
            <<"years", "year", "months", "month", "present", "current">>)

NoExperienceIssue ==
    "CRITICAL: No experience section found (essential for experienced candidates)"

\* C18 as stated: among the inputs a constructed instance can be given, some
\* input is classified as not fresher with has_experience false, scores 30
\* and reports the 'No experience section found' issue
C18_ScoreThirtyReachable ==
    pc = "idle" =>
    \E t \in Texts : \E detected \in ExperienceFlags :
        LET r == _evaluate_experience_projects(Lower(t), detected)
        IN  /\ ~r[3]
            /\ ~Get(detected, "experience")
            /\ r[1] = 30
            /\ \E i \in DOMAIN r[2] : r[2][i] = NoExperienceIssue

\* C18 amended: a resume classified as not fresher has a detected experience
\* section; the experience/projects score is one of 40, 60, 80, 100, never
\* 30, and the 'No experience section found' issue is never reported
C18_ScoreThirtyUnreachable ==
    "is_fresher" \in DOMAIN locals =>
        /\ ~locals.is_fresher => locals.detected_sections.experience
        /\ locals.exp_project_score \in {40, 60, 80, 100}
        /\ \A i \in DOMAIN locals.exp_project_issues :
              locals.exp_project_issues[i] # NoExperienceIssue

\* two or more experience keywords occur and no experience section was
\* detected: the resume is classified as fresher
C18_Witness ==
    /\ ReturnedValid
    /\ ExpMentions >= 2
    /\ ~result.detected_sections.experience
    /\ locals.is_fresher

\* C19: the experience/projects score depends on four facts only. A resume is
\* fresher iff no experience section was detected or fewer than 2 of the six
\* keywords occur; fresher without projects section -> 40; fresher with
\* projects section and fewer than 2 occurrences of 'project' -> 60; fresher
\* otherwise -> 100; not fresher without projects section -> 80; not fresher
\* with projects section -> 100. The is_fresher flag returned is the one the
\* 'No projects (fresher)' cap is decided with.
C19_ExperienceProjectsFunction ==
    ReturnedValid =>
        LET has_experience == result.detected_sections.experience
            has_projects   == result.detected_sections.projects
            fresher        == ~has_experience \/ ExpMentions < 2
            project_count  == Count(Lower(resume_text), "project")
            expected       == IF fresher
                              THEN IF ~has_projects THEN 40
                                   ELSE IF project_count < 2 THEN 60 ELSE 100
                              ELSE IF ~has_projects THEN 100 - 20 ELSE 100
        IN  /\ locals.is_fresher = fresher
            /\ result.component_scores.experience_projects = expected
            /\ result.cap_applied = "No projects (fresher)" =>
                  locals.is_fresher /\ ~has_projects
            /\ (locals.is_fresher /\ ~has_projects /\ result.raw_score > 60
                   /\ result.component_scores.parsability >= 60) =>
                  result.cap_applied = "No projects (fresher)"

\* an experience section, fewer than 2 experience keywords, no projects
\* section: fresher by the keyword count, and capped as a fresher
C19_Witness ==
    /\ ReturnedValid
    /\ result.detected_sections.experience
    /\ ExpMentions < 2
    /\ result.cap_applied = "No projects (fresher)"

FragmentedIssue == "Inconsistent line lengths - reading order may be disrupted"

\* C20: the fragmented-layout deduction of parsability is made exactly when
\* the non-empty lines of trimmed length below 10 are more than 30% of the
\* non-empty lines, so that blank lines do not change whether it is made
C20_FragmentedOverNonEmptyLines ==
    ReturnedValid =>
        LET lines     == SplitLines(resume_text)
            non_empty == {k \in DOMAIN lines : Len(Strip(lines[k])) > 0}
            short     == {k \in non_empty : Len(Strip(lines[k])) < 10}
            deducted  == \E i \in DOMAIN locals.parsability_issues :
                            locals.parsability_issues[i] = FragmentedIssue
        IN  deducted <=> 10 * Cardinality(short) > 3 * Cardinality(non_empty)

\* the values of the four-digit year tokens of the text of the call
\* (19xx or 20xx between word boundaries), in text order
YearValues ==
    LET s    == resume_text
        hits == {i \in 1..Len(s) :
                    /\ WordBoundary(s, i)
                    /\ AnyAt(s, i, {"19", "20"})
                    /\ DigitsAt(s, i + 2, 2)
                    /\ WordBoundary(s, i + 4)}
        at   == SortedIn(hits, 1, Len(s))
    IN  [k \in 1..Len(at) |-> ParseInt(SubSeq(s, at[k], at[k] + 3))]

\* the adjacent pairs of year values that are non-increasing
NonIncreasingPairs ==
    {i \in 1..(Len(YearValues) - 1) : YearValues[i] >= YearValues[i + 1]}

\* the dates score carries the 15-point chronology deduction
ChronologyDeducted == result.component_scores.dates_chronology \in {100 - 15, 100 - 20 - 15}

\* C21: for a text with at least 3 year tokens the dates score carries the
\* 15-point chronology deduction exactly when fewer than 50% of the adjacent
\* pairs of year values, in text order, are non-increasing (so three
\* ascending years of one century are penalised, a descending list is not)
C21_ChronologyByYearValues ==
    (ReturnedValid /\ Len(YearValues) >= 3) =>
        (ChronologyDeducted <=>
            2 * Cardinality(NonIncreasingPairs) < Len(YearValues) - 1)

MissingDatesIssue == "Missing dates for experience/education - add MM/YYYY format dates"

DateRangeIssue == "Use date ranges (e.g., '2020 - 2023') for positions"

ChronologyIssue == "Dates should be in reverse chronological order (most recent first)"

\* the dates sub-evaluation reported the message m
DateIssueSaid(m) == \E i \in DOMAIN locals.date_issues : locals.date_issues[i] = m

\* C22: with fewer than 2 year tokens the dates score is 60 and its single
\* issue is the missing-dates one, whether or not the text holds a range
\* (neither the range check nor the chronology check ran); with 2 or more it
\* is 100, less 20 exactly when the text holds no range
\* 'YYYY - YYYY|present|current', less 15 when the chronology check reports,
\* the one deduction made whether or not the other is; the score is always
\* one of 60, 65, 80, 85, 100
C22_DatesScoreValues ==
    ReturnedValid =>
        LET score    == result.component_scores.dates_chronology
            no_range == ~SearchDateRange(Lower(resume_text))
        IN  /\ Len(YearValues) < 2 =>
                  score = 60 /\ locals.date_issues = <<MissingDatesIssue>>
            /\ Len(YearValues) >= 2 =>
                  /\ score = 100 - (IF no_range THEN 20 ELSE 0)
                                 - (IF DateIssueSaid(ChronologyIssue) THEN 15 ELSE 0)
                  /\ DateIssueSaid(DateRangeIssue) <=> no_range
                  /\ ~DateIssueSaid(MissingDatesIssue)
            /\ score \in {60, 65, 80, 85, 100}

\* a single year token next to a range: the early return left the range
\* unexamined
C22_Witness ==
    /\ ReturnedValid
    /\ Len(YearValues) = 1
    /\ SearchDateRange(Lower(resume_text))
    /\ result.component_scores.dates_chronology = 60

\* the lines of the text of the call that start, once trimmed, with a bullet
\* glyph, in text order
BulletLines ==
    LET lines == SplitLines(resume_text)
    IN  SelectSeqIdx(lines, {k \in DOMAIN lines :
                                StartsWith(Strip(lines[k]), "-")
                                  \/ StartsWith(Strip(lines[k]), "*")})

\* how many of the three signals the bullet b shows: a leading action verb,
\* a technical skill, an outcome or metric
Signals(b) ==
    LET t == Lower(Strip(LStrip(Strip(b), {"-", "*"})))
    IN  (IF \E k \in DOMAIN InitActionVerbs : StartsWith(t, InitActionVerbs[k])
         THEN 1 ELSE 0)
          + (IF AnyIn(t, InitTechnicalSkills) THEN 1 ELSE 0)
          + (IF \/ SearchDigitsThen(t, "%") \/ SearchDigitsThen(t, "x")
                \/ \E w \in {"improved", "increased", "reduced", "achieved"} : Contains(t, w)
             THEN 1 ELSE 0)

\* the weak bullets among the first n bullet lines
WeakAmongFirst(n) ==
    Cardinality({k \in 1..Min2(n, Len(BulletLines)) : Signals(BulletLines[k]) < 2})

\* C23: with no bullet line the bullet score is 60 with the one critical
\* issue; otherwise, with w the number of bullets among the first 10 that
\* show fewer than 2 of the 3 signals, it is 70 if w > 5, 85 if 2 < w <= 5 and
\* 100 otherwise: the bullets after the tenth do not change the score
C23_BulletScoreFirstTen ==
    ReturnedValid =>
        LET score == result.component_scores.bullet_structure
            w     == WeakAmongFirst(10)
        IN  /\ Len(BulletLines) = 0 =>
                  /\ score = 60
                  /\ locals.bullet_issues =
                        <<"CRITICAL: No bullet points found - use bullets for achievements">>
            /\ Len(BulletLines) > 0 =>
                  score = (IF w > 5 THEN 70 ELSE IF w > 2 THEN 85 ELSE 100)

\* more than ten bullets, six weak ones among them, all after the tenth
C23_Witness ==
    /\ ReturnedValid
    /\ Len(BulletLines) > 10
    /\ WeakAmongFirst(Len(BulletLines)) > 5
    /\ WeakAmongFirst(10) = 0
    /\ result.component_scores.bullet_structure = 100

OtherSections == {"summary", "projects", "certifications"}

\* the issue reported for each section whose absence is reported
MissingSectionIssue ==
    [contact    |-> "CRITICAL: Missing Contact section",
     skills     |-> "CRITICAL: Missing Skills section",
     experience |-> "CRITICAL: Missing Experience section",
     education  |-> "CRITICAL: Missing Education section",
     projects   |-> "Missing Projects section (important for freshers)"]

\* C24: the section score is min(100, 20 * detected critical sections + 10 *
\* detected other sections); it is 100 only if all four critical sections and
\* at least two of the three others are detected; the issues of the section
\* sub-evaluation are one CRITICAL issue for each missing critical section
\* and the softer issue for missing projects, and nothing for a missing
\* summary or certifications
C24_SectionScore ==
    ReturnedValid =>
        LET det      == result.detected_sections
            critical == Cardinality({n \in {"contact", "skills", "experience", "education"} :
                                        det[n]})
            other    == Cardinality({n \in OtherSections : det[n]})
            score    == result.component_scores.section_detection
            said     == {locals.section_issues[i] : i \in DOMAIN locals.section_issues}
        IN  /\ score = Min2(100, 20 * critical + 10 * other)
            /\ score = 100 => critical = 4 /\ other >= 2
            /\ said = {MissingSectionIssue[n] : n \in {m \in DOMAIN MissingSectionIssue : ~det[m]}}
            /\ Len(locals.section_issues) = Cardinality(said)

\* all seven sections detected: the points sum to 110
C24_Witness ==
    /\ ReturnedValid
    /\ \A n \in SevenSections : result.detected_sections[n]
    /\ result.component_scores.section_detection = 100

\* the six dimensions that have a strength sentence, with the score from
\* which it is given
StrengthThreshold ==
    [parsability |-> 80, section_detection |-> 80, contact_information |-> 80,
     keyword_matching |-> 70, bullet_structure |-> 80, dates_chronology |-> 80]

StrengthSentence ==
    [parsability         |-> "Clean, ATS-parsable format",
     section_detection   |-> "All essential sections present",
     contact_information |-> "Complete contact information",
     keyword_matching    |-> "Good keyword density and relevance",
     bullet_structure    |-> "Well-structured bullet points with outcomes",
     dates_chronology    |-> "Proper chronological organization"]

\* the score below which each dimension gets its weakness sentence
WeaknessThreshold ==
    [parsability |-> 60, section_detection |-> 60, contact_information |-> 60,
     keyword_matching |-> 50, experience_projects |-> 60, bullet_structure |-> 60,
     dates_chronology |-> 60]

WeaknessSentence ==
    [parsability         |-> "OCR quality issues affecting parsability",
     section_detection   |-> "Missing critical resume sections",
     contact_information |-> "Incomplete contact information",
     keyword_matching    |-> "Insufficient relevant keywords and skills",
     experience_projects |-> "Weak experience/project presentation",
     bullet_structure    |-> "Bullet points lack structure and impact",
     dates_chronology    |-> "Missing or inconsistent dates"]

StrengthsSaid == {result.strengths[i] : i \in DOMAIN result.strengths}

WeaknessesSaid == {result.weaknesses[i] : i \in DOMAIN result.weaknesses}

\* C25: each of the seven dimensions, experience/projects included, yields a
\* strength sentence when its score is at or above its strength threshold
\* (some threshold from 70 to 80 for experience/projects) and its weakness
\* sentence when below its weakness threshold, and no dimension yields both
C25_SevenStrengthsAndWeaknesses ==
    ReturnedValid =>
        LET cs == result.component_scores
        IN  /\ \A d \in DOMAIN StrengthThreshold :
                  StrengthSentence[d] \in StrengthsSaid <=> cs[d] >= StrengthThreshold[d]
            /\ \A d \in SevenDimensions :
                  WeaknessSentence[d] \in WeaknessesSaid <=> cs[d] < WeaknessThreshold[d]
            /\ \E th \in 70..80 :
                  cs.experience_projects >= th =>
                     \E i \in DOMAIN result.strengths :
                        \A d \in DOMAIN StrengthSentence :
                           result.strengths[i] # StrengthSentence[d]
            /\ \A d \in DOMAIN StrengthThreshold :
                  ~(StrengthSentence[d] \in StrengthsSaid /\ WeaknessSentence[d] \in WeaknessesSaid)

CapEntryPrefix == "Score capped due to: "

\* C26: the weaknesses list ends with 'Score capped due to: <reason>' exactly
\* when cap_applied is not 'No cap applied', which is exactly when score is
\* below raw_score; the reason of the entry is cap_applied, and no other
\* entry of the list is a cap entry
C26_CapEntryLast ==
    ReturnedValid =>
        LET w      == result.weaknesses
            capped == result.cap_applied # "No cap applied"
        IN  /\ capped <=> result.score < result.raw_score
            /\ capped <=> (Len(w) > 0 /\ StartsWith(w[Len(w)], CapEntryPrefix))
            /\ capped => w[Len(w)] = CapEntryPrefix \o result.cap_applied
            /\ \A i \in 1..(Len(w) - 1) : ~StartsWith(w[i], CapEntryPrefix)

\* a cap bound, and the entry follows the weakness sentences of three or
\* more dimensions
C26_Witness ==
    /\ ReturnedValid
    /\ result.score < result.raw_score
    /\ Len(result.weaknesses) >= 4
    /\ result.weaknesses[Len(result.weaknesses)] = CapEntryPrefix \o result.cap_applied

\* C27: on every valid input the bullet score and the dates score are at
\* least 60, so the 'Weak bullet points' cap is never collected: cap_applied
\* is 'No cap applied', 'Parsability issues', 'No projects (fresher)' or
\* 'Insufficient keywords', a capped score is 55, 60 or 70, and the
\* weaknesses of the bullet and dates dimensions are never given
C27_BulletCapNeverCollected ==
    ReturnedValid =>
        /\ result.component_scores.bullet_structure >= 60
        /\ result.component_scores.dates_chronology >= 60
        /\ result.cap_applied \in {"No cap applied", "Parsability issues",
                                   "No projects (fresher)", "Insufficient keywords"}
        /\ result.score < result.raw_score => result.score \in {55, 60, 70}
        /\ "Bullet points lack structure and impact" \notin WeaknessesSaid
        /\ "Missing or inconsistent dates" \notin WeaknessesSaid

\* the lowest bullet score there is, a raw score above 65, and the cap that
\* binds is the one of the keywords at 70
C27_Witness ==
    /\ ReturnedValid
    /\ result.component_scores.bullet_structure = 60
    /\ result.raw_score > 70
    /\ result.cap_applied = "Insufficient keywords"
    /\ result.score = 70

\* the lowercased text of the call contains the keyword kw
Mentions(kw) == Contains(Lower(resume_text), kw)

\* C28: a text that contains 'years' (or 'months') counts as 2 keyword
\* mentions at least, 'year' (or 'month') being a substring of it; so a
\* resume with a detected experience section whose text contains 'years' or
\* 'months' is classified as not fresher, has an experience/projects score of
\* 80 or 100 and never gets the 'No projects (fresher)' cap
C28_PluralCountsTwice ==
    (ReturnedValid /\ (Mentions("years") \/ Mentions("months"))) =>
        /\ ExpMentions >= 2
        /\ result.detected_sections.experience =>
              /\ ~locals.is_fresher
              /\ result.component_scores.experience_projects \in {80, 100}
              /\ result.cap_applied # "No projects (fresher)"

\* 'years' occurs once and no other keyword does; an experience section and
\* no projects section, and a raw score above the cap of a fresher
C28_Witness ==
    /\ ReturnedValid
    /\ Mentions("years")
    /\ Count(Lower(resume_text), "year") = 1
    /\ ~Mentions("month") /\ ~Mentions("present") /\ ~Mentions("current")
    /\ result.detected_sections.experience
    /\ ~result.detected_sections.projects
    /\ result.raw_score > 60
    /\ ~locals.is_fresher

(***************************************************************************)
(* Properties of evaluate                                                  *)
(***************************************************************************)
\* the keys the integration test of test_backend.py looks for
RequiredKeys ==
    {"standard_ats_score", "ai_ats_score", "final_ats_score", "analysis_summary",
     "resume_improvements"}

\* C29: evaluate returns without raising, whatever the text and whether or
\* not the LLM analyzers are available or fail; the result it returns has
\* the keys standard_ats_score, ai_ats_score, final_ats_score,
\* analysis_summary and resume_improvements, each of the five improvement
\* categories is non-empty, and the scores of the LLM analyzers are numbers
\* (0 for one that is unavailable)
C29_EvaluateNeverRaises ==
    /\ evaluation.pc # "raised"
    /\ evaluation.pc = "done" =>
          /\ RequiredKeys \subseteq DOMAIN evaluation.result
          /\ \A k \in DOMAIN Categories :
                /\ Categories[k] \in DOMAIN evaluation.result.resume_improvements
                /\ Len(evaluation.result.resume_improvements[Categories[k]]) >= 1
          /\ evaluation.result.ai_ats_score.type = "int"
          /\ evaluation.result.rubric_ats_score.type = "int"
          /\ ~evaluation.ai_available => evaluation.result.ai_ats_score.value = 0
          /\ ~evaluation.rubric_available => evaluation.result.rubric_ats_score.value = 0

\* C30: final_ats_score is the integer nearest to the mean of the three
\* scores; with both LLM analyzers unavailable their scores are 0 and
\* final_ats_score is the integer nearest to standard_ats_score / 3, which
\* is at most 33
C30_FinalScoreIsRoundedMean ==
    evaluation.pc = "done" =>
       LET r     == evaluation.result
           total == r.standard_ats_score + r.ai_ats_score.value + r.rubric_ats_score.value
       IN  /\ 2 * (3 * r.final_ats_score - total) <= 3
           /\ 2 * (total - 3 * r.final_ats_score) <= 3
           /\ (~evaluation.ai_available /\ ~evaluation.rubric_available) =>
                 /\ r.ai_ats_score.value = 0
                 /\ r.rubric_ats_score.value = 0
                 /\ 2 * (3 * r.final_ats_score - r.standard_ats_score) <= 3
                 /\ 2 * (r.standard_ats_score - 3 * r.final_ats_score) <= 3
                 /\ r.final_ats_score <= 33

\* evaluate has returned with both LLM analyzers unavailable and a standard
\* score of 80 or more: the final score is below 34
C30_Witness ==
    /\ evaluation.pc = "done"
    /\ ~evaluation.ai_available
    /\ ~evaluation.rubric_available
    /\ evaluation.result.standard_ats_score >= 80
    /\ evaluation.result.final_ats_score <= 33
    /\ evaluation.result.final_ats_score >= 27

====
